---- MODULE Spec2Model ----
(***************************************************************************)
(* Request dispatcher of the Smarttranslatestyle extension: the           *)
(* chrome.runtime.onMessage listener of the background script, its        *)
(* proxy-config reader and its translation cache in chrome.storage.local. *)
(*                                                                         *)
(* Strings whose length or content the code inspects (message.text,       *)
(* message.target, the cache key) are run-length encoded: a string is a   *)
(* sequence of runs [c |-> character, n |-> repetitions], adjacent runs   *)
(* holding different characters and every n > 0, so that two strings are  *)
(* equal exactly when their encodings are equal and a text of 10001       *)
(* characters is one run.                                                 *)
(***************************************************************************)
EXTENDS Integers, Sequences, FiniteSets, TLC

\* ------------------------------------------------------------------ bounds

\* Number of clock advances in one behaviour.
MaxTicks == 2

\* Number of bubble clicks, and of advances of the page's clock between
\* them, in one behaviour.
MaxClicks == 3
MaxWaits == 3

\* ----------------------------------------------------------- program constants

CACHE_TTL_MS == 86400000
MaxTextLength == 10000
TranslateTimeoutMs == 15000
TtsTimeoutMs == 25000
REQUEST_COOLDOWN_MS == 2000

DefaultProxyUrl == "https://smarttranslateplus-f5y4.vercel.app/api/translate"

\* ----------------------------------------------------------------- strings

SP == " "

\* The characters String.prototype.trim removes (the model's alphabet holds one).
IsWhitespace(ch) == ch = SP

Run(ch, k) == [c |-> ch, n |-> k]

\* The string made of k copies of ch.
Rep(ch, k) == IF k = 0 THEN << >> ELSE << Run(ch, k) >>

\* s + t
Concat(s, t) ==
  IF s = << >> THEN t
  ELSE IF t = << >> THEN s
  ELSE IF s[Len(s)].c = t[1].c
       THEN SubSeq(s, 1, Len(s) - 1)
              \o << Run(t[1].c, s[Len(s)].n + t[1].n) >>
              \o SubSeq(t, 2, Len(t))
       ELSE s \o t

\* A string literal, given character by character.
RECURSIVE Lit(_)
Lit(chars) ==
  IF chars = << >> THEN << >>
  ELSE Concat(Rep(chars[1], 1), Lit(Tail(chars)))

\* s.length
RECURSIVE StrLen(_)
StrLen(s) == IF s = << >> THEN 0 ELSE s[1].n + StrLen(Tail(s))

TrimStart(s) == IF s # << >> /\ IsWhitespace(s[1].c) THEN Tail(s) ELSE s

TrimEnd(s) ==
  IF s # << >> /\ IsWhitespace(s[Len(s)].c) THEN SubSeq(s, 1, Len(s) - 1) ELSE s

\* s.trim()
Trim(s) == TrimEnd(TrimStart(s))

\* ---------------------------------------------------------------- messages

Slots == {1, 2}

Has(r, f) == f \in DOMAIN r

\* message.text || ''   (a missing field reads as undefined)
TextOrEmpty(message) ==
  IF Has(message, "text") /\ message.text # << >> THEN message.text ELSE << >>

\* const text = String(message.text || '').trim();
TextOf(message) == Trim(TextOrEmpty(message))

\* !message.type
NoType(message) == ~Has(message, "type") \/ message.type = ""

\* const target = message.target || 'it';
TargetOf(message) ==
  IF Has(message, "target") /\ message.target # << >>
  THEN message.target
  ELSE Lit(<<"i", "t">>)

\* const voice = message.voice || null;
VoiceOf(message) ==
  IF Has(message, "voice") /\ message.voice # "" THEN message.voice ELSE "null"

\* One deadline for every kind.
TimeoutMsSame(message) == TranslateTimeoutMs

\* const timeoutMs = message.type === 'GET_TTS' ? 25000 : 15000;
TimeoutMsOf(message) ==
  IF message.type = "GET_TTS" THEN TtsTimeoutMs ELSE TranslateTimeoutMs

\* const cacheKey = `t:${target}|${text}`;
CacheKeyOf(target, text) ==
  Concat(Concat(Concat(Lit(<<"t", ":">>), target), Lit(<<"|">>)), text)

\* The key built from the text as sent, not trimmed.
KeyOfRawText(message) == CacheKeyOf(TargetOf(message), TextOrEmpty(message))

\* The cache key of a translate request (lines 50, 74 and 76 together).
KeyOfMessage(message) == CacheKeyOf(TargetOf(message), TextOf(message))

\* ------------------------------------------------------------------ inputs

A1 == Rep("a", 1)

\* message.text: empty, blank, valid, padded, at the limit (bare and padded),
\* over it.
Texts ==
  { << >>,
    Rep(SP, 2),
    A1,
    Concat(Concat(Rep(SP, 1), A1), Rep(SP, 1)),
    Rep("a", MaxTextLength),
    Concat(Concat(Rep(SP, 1), Rep("a", MaxTextLength)), Rep(SP, 1)),
    Rep("a", MaxTextLength + 1) }

Types == {"TRANSLATE_TEXT", "ANALYZE_TEXT", "GET_TTS", "PING", ""}

Targets == {Lit(<<"e", "n">>)}

Voices == {"v1"}

\* The messages a sender can deliver: any subset of the fields may be missing.
Messages ==
  [type : Types, text : Texts]
    \cup [text : Texts]
    \cup [type : Types]
    \cup [type : {"TRANSLATE_TEXT"}, text : Texts, target : Targets]
    \cup [type : {"GET_TTS"}, text : Texts, voice : Voices]

\* Translate requests on two texts (one of them also padded), one analyze
\* and one TTS request: the requests whose dispatches share the storage.
CoreMessages ==
  [type : {"TRANSLATE_TEXT"},
   text : {A1, Concat(Concat(Rep(SP, 1), A1), Rep(SP, 1)), Rep("b", 1)}]
    \cup {[type |-> "ANALYZE_TEXT", text |-> A1], [type |-> "GET_TTS", text |-> A1]}

Undefined == [undefined |-> TRUE]

\* What the callback of chrome.storage.local.get(['proxyUrl', 'proxyToken'])
\* can be handed: undefined (runtime.lastError), or the items the options
\* page stored, which the dispatcher never writes.
ConfigItems ==
  { Undefined,
    [unset |-> TRUE],
    [proxyToken |-> "secret"],
    [proxyUrl |-> "https://proxy.example/api", proxyToken |-> "secret"],
    [proxyUrl |-> "", proxyToken |-> ""] }

\* How a chrome.storage.local.get call can end: its callback runs with the
\* stored items, its callback runs with undefined (runtime.lastError), or the
\* call itself throws.
GetOutcomes == {"items", "undefined", "throws"}

Statuses == {200, 500}

\* resp.ok
IsOk(status) == status >= 200 /\ status <= 299

\* What resp.text() resolves to; "unreadable" is a rejected read.
BodyTexts == {"unreadable", "Internal error"}

Null == [null |-> TRUE]

\* What resp.json().catch(() => null) gives: null for a body that is not JSON
\* (or is the JSON null), otherwise the parsed object.
JsonBodies ==
  { Null,
    [empty |-> TRUE],
    [translation |-> "ciao"],
    [translation |-> "salve"],
    [translation |-> ""],
    [error |-> "no_translation"],
    [analysis |-> "word"],
    [audio |-> "QUJD"],
    [audio |-> "QUJD", mime |-> "audio/wav"] }

CoreBodies == {Null, [translation |-> "ciao"], [translation |-> "salve"]}

\* JavaScript truthiness of data.<f>
Truthy(data, f) == Has(data, f) /\ data[f] # ""

Deltas == {1, TranslateTimeoutMs, CACHE_TTL_MS}

\* ------------------------------------------------------------------- state

VARIABLES
  now,        \* Date.now()
  ticks,      \* clock advances so far
  cache,      \* chrome.storage.local[CACHE_KEY]: key -> [translation, ts]
  msg,        \* per dispatch: the message delivered
  pc,         \* per dispatch: where the listener's async body is
  cfg,        \* per dispatch: { url: PROXY_URL, token }
  timer,      \* per dispatch: the setTimeout / AbortController pair
  cacheKey,   \* per dispatch: const cacheKey
  cached,     \* per dispatch: how the cache read ended, and const cached
  snap,       \* per dispatch: the in-memory map of a cache read-modify-write
  resp,       \* per dispatch: the proxy's Response (status and body)
  cw,         \* per dispatch: progress of setCachedTranslation, its argument
              \* and its position among the calls made
  responses,  \* per dispatch: the sendResponse calls made
  fetches,    \* per dispatch: the fetch calls made
  reads,      \* per dispatch: chrome.storage.local.get calls made
  req,        \* handler: the request being served (method, body, raw stream)
  env,        \* handler: process.env of the invocation
  hpc,        \* handler: where the invocation is
  hpath,      \* handler: the path the routing selected
  hdrs,       \* handler: the response headers set so far
  hres,       \* handler: the responses sent through res
  upstream,   \* handler: the calls made to the providers
  uresp,      \* handler: the provider's Response being read
  clock,      \* content script: Date.now() of the page
  lastRequestTime,  \* content script: let _lastRequestTime
  sent,       \* content script: when each TRANSLATE_TEXT of a bubble click was sent
  clicks,     \* content script: bubble clicks handled so far
  waits       \* content script: advances of the page's clock so far

\* The dispatcher's variables and the handler's.
dvars ==
  << now, ticks, cache, msg, pc, cfg, timer, cacheKey, cached, snap, resp, cw,
     responses, fetches, reads >>

hvars == << req, env, hpc, hpath, hdrs, hres, upstream, uresp >>

cvars == << clock, lastRequestTime, sent, clicks, waits >>

vars == << dvars, hvars, cvars >>

NoMsg == [none |-> TRUE]
NoCfg == [url |-> "", token |-> "null"]
NoTimer == [state |-> "none", armedAt |-> 0, ms |-> 0]
EmptyMap == [k \in {} |-> Null]
NoResp == [status |-> 0, body |-> Null]
NoReq == [none |-> TRUE]
NoEnv == [none |-> TRUE]
NotRead == [read |-> "none", value |-> "null"]

\* The cache an earlier run of the extension left in chrome.storage.local:
\* one translation of "a" into the default target, written at time 0.
StoredMap ==
  [k \in {CacheKeyOf(Lit(<<"i", "t">>), A1)} |-> [translation |-> "ciao", ts |-> 0]]

InitDispatch ==
  /\ msg = [m \in Slots |-> NoMsg]
  /\ pc = [m \in Slots |-> "idle"]
  /\ cfg = [m \in Slots |-> NoCfg]
  /\ timer = [m \in Slots |-> NoTimer]
  /\ cacheKey = [m \in Slots |-> << >>]
  /\ cached = [m \in Slots |-> NotRead]
  /\ snap = [m \in Slots |-> EmptyMap]
  /\ resp = [m \in Slots |-> NoResp]
  /\ cw = [m \in Slots |-> [state |-> "none", translation |-> "", seq |-> 0]]
  /\ responses = [m \in Slots |-> << >>]
  /\ fetches = [m \in Slots |-> << >>]
  /\ reads = [m \in Slots |-> 0]

\* The handler before it is invoked.
InitHandler ==
  /\ req = NoReq
  /\ env = NoEnv
  /\ hpc = "idle"
  /\ hpath = "none"
  /\ hdrs = {}
  /\ hres = << >>
  /\ upstream = << >>
  /\ uresp = NoResp

\* Date.now() when the content script is loaded: milliseconds since 1970,
\* far above the cooldown.
PageLoadTime == 1000 * REQUEST_COOLDOWN_MS

\* The content script as loaded into a page: let _lastRequestTime = 0.
InitContent ==
  /\ clock = PageLoadTime
  /\ lastRequestTime = 0
  /\ sent = << >>
  /\ clicks = 0
  /\ waits = 0

\* A fresh installation: nothing cached yet.
Init ==
  /\ now = 0
  /\ ticks = 0
  /\ cache = EmptyMap
  /\ InitDispatch
  /\ InitHandler
  /\ InitContent

\* A restart of the background script: the cache may hold an earlier entry.
InitOne ==
  /\ now = 0
  /\ ticks = 0
  /\ cache \in {EmptyMap, StoredMap}
  /\ InitDispatch
  /\ InitHandler
  /\ InitContent

\* ----------------------------------------------------------------- helpers

\* resolve({ url: res?.proxyUrl || <default>, token: res?.proxyToken || null })
ProxyConfigOf(res) ==
  [ url   |-> IF Has(res, "proxyUrl") /\ res.proxyUrl # ""
              THEN res.proxyUrl ELSE DefaultProxyUrl,
    token |-> IF Has(res, "proxyToken") /\ res.proxyToken # ""
              THEN res.proxyToken ELSE "null" ]

\* const map = res?.[CACHE_KEY] || {};
MapOf(outcome) == IF outcome = "items" THEN cache ELSE EmptyMap

\* An entry expiring as soon as its age reaches the TTL.
ExpiredAtTtl(entry, t) == t - entry.ts >= CACHE_TTL_MS

\* Date.now() - entry.ts > CACHE_TTL_MS
Expired(entry, t) == t - entry.ts > CACHE_TTL_MS

\* A delete that leaves the entry in place.
MapDeleteNothing(map, key) == map

\* delete map[key]
MapDelete(map, key) == [k \in DOMAIN map \ {key} |-> map[k]]

\* An entry set only when the key has none.
MapPutIfAbsent(map, key, translation, t) ==
  [k \in DOMAIN map \cup {key} |->
     IF k \in DOMAIN map THEN map[k] ELSE [translation |-> translation, ts |-> t]]

\* map[key] = { translation, ts: Date.now() }
MapPut(map, key, translation, t) ==
  [k \in DOMAIN map \cup {key} |->
     IF k = key THEN [translation |-> translation, ts |-> t] ELSE map[k]]

\* const headers = {...}; if (token) headers['x-proxy-token'] = token;
HeadersOf(token) ==
  IF token # "null"
  THEN [contentType |-> "application/json", xProxyToken |-> token]
  ELSE [contentType |-> "application/json"]

\* The analyze body sent without its action field.
BodyOfNoAction(message) ==
  IF message.type = "TRANSLATE_TEXT"
  THEN [text |-> TextOf(message), target |-> TargetOf(message)]
  ELSE IF message.type = "ANALYZE_TEXT"
  THEN [text |-> TextOf(message)]
  ELSE [text |-> TextOf(message), tts |-> TRUE, voice |-> VoiceOf(message)]

\* body: JSON.stringify(...) of the three fetch calls
BodyOf(message) ==
  IF message.type = "TRANSLATE_TEXT"
  THEN [text |-> TextOf(message), target |-> TargetOf(message)]
  ELSE IF message.type = "ANALYZE_TEXT"
  THEN [text |-> TextOf(message), action |-> "analyze"]
  ELSE [text |-> TextOf(message), tts |-> TRUE, voice |-> VoiceOf(message)]

RequestOf(message, c) ==
  [url |-> c.url, method |-> "POST", headers |-> HeadersOf(c.token),
   body |-> BodyOf(message)]

\* clearTimeout(timeout): disarms a timer that has not fired.
Cleared(t) == IF t.state = "armed" THEN [t EXCEPT !.state = "cleared"] ELSE t

\* The catch block of the listener for an AbortError.
TimeoutResponse == [error |-> "timeout"]

\* Every body without a translation answered invalid_response.
TranslateResponseInvalid(data) ==
  IF data # Null /\ Truthy(data, "translation") THEN [translation |-> data.translation]
  ELSE [error |-> "invalid_response"]

\* sendResponse of the TRANSLATE_TEXT branch for a parsed body.
TranslateResponse(data) ==
  IF data = Null THEN [error |-> "invalid_response"]
  ELSE IF Truthy(data, "translation") THEN [translation |-> data.translation]
  ELSE IF Truthy(data, "error") THEN [error |-> "proxy_error", detail |-> data]
  ELSE [error |-> "proxy_no_translation", raw |-> data]

\* sendResponse of the ANALYZE_TEXT branch for a parsed body.
AnalyzeResponse(data) ==
  IF data = Null \/ ~Truthy(data, "analysis")
  THEN [error |-> "no_analysis", raw |-> data]
  ELSE [analysis |-> data.analysis]

\* The GET_TTS branch without its check of data.audio: the audio field of
\* a body that has none is undefined and is dropped from the response.
TtsResponseUnguarded(data) ==
  IF data = Null THEN [error |-> "no_audio", raw |-> data]
  ELSE IF Truthy(data, "audio")
  THEN [audio |-> data.audio,
        mime |-> IF Truthy(data, "mime") THEN data.mime ELSE "audio/mpeg"]
  ELSE [mime |-> IF Truthy(data, "mime") THEN data.mime ELSE "audio/mpeg"]

\* sendResponse of the GET_TTS branch for a parsed body.
TtsResponse(data) ==
  IF data = Null \/ ~Truthy(data, "audio")
  THEN [error |-> "no_audio", raw |-> data]
  ELSE [audio |-> data.audio,
        mime |-> IF Truthy(data, "mime") THEN data.mime ELSE "audio/mpeg"]

\* A translation cached whatever the kind of the request.
WritesCacheAnyKind(message, data) == data # Null /\ Truthy(data, "translation")

\* if (data.translation) setCachedTranslation(cacheKey, data.translation)
WritesCache(message, data) ==
  message.type = "TRANSLATE_TEXT" /\ data # Null /\ Truthy(data, "translation")

\* const txt = await resp.text().catch(() => '');
TextRead(body) == IF body = "unreadable" THEN "" ELSE body

\* The proxy error without its status.
ProxyErrorNoStatus(status, body) ==
  [error |-> "proxy_error", message |-> TextRead(body)]

\* sendResponse({ error: 'proxy_error', status: resp.status, message: txt })
ProxyErrorResponse(status, body) ==
  [error |-> "proxy_error", status |-> status, message |-> TextRead(body)]

\* The cache hit answered like a network translation.
CacheHitUntagged(value) == [translation |-> value]

\* sendResponse({ translation: cached, cached: true })
CacheHitResponse(value) == [translation |-> value, cached |-> TRUE]

\* Validation with the length limit off by one.
ValidationOffByOne(message) ==
  IF NoType(message) THEN "ignored"
  ELSE IF TextOf(message) = << >> THEN "empty_text"
  ELSE IF StrLen(TextOf(message)) >= MaxTextLength THEN "text_too_long"
  ELSE "ok"

\* The listener's synchronous checks, in the order of the code.
Validation(message) ==
  IF NoType(message) THEN "ignored"
  ELSE IF TextOf(message) = << >> THEN "empty_text"
  ELSE IF StrLen(TextOf(message)) > MaxTextLength THEN "text_too_long"
  ELSE "ok"

\* ----------------------------------------------------------------- actions

\* fetch(PROXY_URL, {..., signal}) followed by await: a fetch on a signal that
\* is already aborted rejects with an AbortError at once.
IssueFetch(m, c, t) ==
  /\ fetches' = [fetches EXCEPT ![m] = Append(@, RequestOf(msg[m], c))]
  /\ IF t.state = "fired"
     THEN /\ pc' = [pc EXCEPT ![m] = "done"]
          /\ responses' = [responses EXCEPT ![m] = Append(@, TimeoutResponse)]
     ELSE /\ pc' = [pc EXCEPT ![m] = "fetching"]
          /\ UNCHANGED responses

\* The listener is called with a message: the synchronous part, up to the
\* first await (which is on getProxyConfig's storage read).
Deliver(m, message, outcome) ==
  /\ pc[m] = "idle"
  /\ \A k \in Slots : k < m => pc[k] # "idle"
  /\ msg' = [msg EXCEPT ![m] = message]
  /\ LET v == Validation(message)
     IN IF v = "ignored"
        THEN /\ pc' = [pc EXCEPT ![m] = "ignored"]
             /\ UNCHANGED << responses, reads >>
        ELSE IF v # "ok"
        THEN /\ pc' = [pc EXCEPT ![m] = "done"]
             /\ responses' = [responses EXCEPT ![m] = Append(@, [error |-> v])]
             /\ UNCHANGED reads
        ELSE /\ reads' = [reads EXCEPT ![m] = @ + 1]
             /\ pc' = [pc EXCEPT ![m] =
                         IF outcome = "throws" THEN "rejected" ELSE "getConfig"]
             /\ UNCHANGED responses
  /\ UNCHANGED << hvars, cvars >>
  /\ UNCHANGED << now, ticks, cache, cfg, timer, cacheKey, cached, snap, resp, cw, fetches >>

\* getProxyConfig's storage callback runs; the async body arms the timer and
\* runs to its next await.
ConfigRead(m, res) ==
  /\ pc[m] = "getConfig"
  /\ LET c == ProxyConfigOf(res)
         t == [state |-> "armed", armedAt |-> now, ms |-> TimeoutMsOf(msg[m])]
     IN /\ cfg' = [cfg EXCEPT ![m] = c]
        /\ IF msg[m].type = "TRANSLATE_TEXT"
           THEN /\ cacheKey' = [cacheKey EXCEPT ![m] = KeyOfMessage(msg[m])]
                /\ reads' = [reads EXCEPT ![m] = @ + 1]
                /\ timer' = [timer EXCEPT ![m] = t]
                /\ pc' = [pc EXCEPT ![m] = "cacheGet"]
                /\ UNCHANGED << responses, fetches >>
           ELSE IF msg[m].type \in {"ANALYZE_TEXT", "GET_TTS"}
           THEN /\ timer' = [timer EXCEPT ![m] = t]
                /\ IssueFetch(m, c, t)
                /\ UNCHANGED << cacheKey, reads >>
           ELSE /\ responses' = [responses EXCEPT ![m] =
                                   Append(@, [error |-> "unknown_message_type"])]
                /\ timer' = [timer EXCEPT ![m] = Cleared(t)]
                /\ pc' = [pc EXCEPT ![m] = "done"]
                /\ UNCHANGED << cacheKey, reads, fetches >>
  /\ UNCHANGED << hvars, cvars >>
  /\ UNCHANGED << now, ticks, cache, msg, cached, snap, resp, cw >>

\* getCachedTranslation's storage read ends: the call threw (the promise
\* rejects and the listener's inner catch treats it as a miss), or its
\* callback runs.
CacheRead(m, outcome) ==
  /\ pc[m] = "cacheGet"
  /\ LET map == MapOf(outcome)
         key == cacheKey[m]
     IN IF outcome = "throws" \/ key \notin DOMAIN map
        THEN /\ cached' = [cached EXCEPT ![m] = [read |-> outcome, value |-> "null"]]
             /\ IssueFetch(m, cfg[m], timer[m])
             /\ UNCHANGED << snap, timer >>
        ELSE IF Expired(map[key], now)
        THEN /\ cached' = [cached EXCEPT ![m] = [read |-> outcome, value |-> "null"]]
             /\ snap' = [snap EXCEPT ![m] = MapDelete(map, key)]
             /\ pc' = [pc EXCEPT ![m] = "cachePurge"]
             /\ UNCHANGED << responses, fetches, timer >>
        ELSE /\ cached' = [cached EXCEPT ![m] =
                             [read |-> outcome, value |-> map[key].translation]]
             /\ responses' = [responses EXCEPT ![m] =
                                Append(@, CacheHitResponse(map[key].translation))]
             /\ timer' = [timer EXCEPT ![m] = Cleared(@)]
             /\ pc' = [pc EXCEPT ![m] = "done"]
             /\ UNCHANGED << snap, fetches >>
  /\ UNCHANGED << hvars, cvars >>
  /\ UNCHANGED << now, ticks, cache, msg, cfg, cacheKey, resp, cw, reads >>

\* chrome.storage.local.set({[CACHE_KEY]: map}, () => resolve(null)) of an
\* expired read completes: the whole map is replaced, then the miss goes on.
CachePurgeDone(m) ==
  /\ pc[m] = "cachePurge"
  /\ cache' = snap[m]
  /\ IssueFetch(m, cfg[m], timer[m])
  /\ UNCHANGED << hvars, cvars >>
  /\ UNCHANGED << now, ticks, msg, cfg, timer, cacheKey, cached, snap, resp, cw, reads >>

\* A timer callback that answers the timeout itself, wherever the listener is.
TimerFireAnswers(m) ==
  /\ timer[m].state = "armed"
  /\ now - timer[m].armedAt >= timer[m].ms
  /\ timer' = [timer EXCEPT ![m].state = "fired"]
  /\ responses' = [responses EXCEPT ![m] = Append(@, TimeoutResponse)]
  /\ pc' = [pc EXCEPT ![m] = IF pc[m] = "fetching" THEN "done" ELSE pc[m]]
  /\ UNCHANGED << hvars, cvars >>
  /\ UNCHANGED << now, ticks, cache, msg, cfg, cacheKey, cached, snap, resp, cw, fetches, reads >>

\* setTimeout(() => controller.abort(), timeoutMs) fires; a pending fetch
\* rejects with an AbortError, which the catch block answers.
TimerFire(m) ==
  /\ timer[m].state = "armed"
  /\ now - timer[m].armedAt >= timer[m].ms
  /\ timer' = [timer EXCEPT ![m].state = "fired"]
  /\ IF pc[m] = "fetching"
     THEN /\ pc' = [pc EXCEPT ![m] = "done"]
          /\ responses' = [responses EXCEPT ![m] = Append(@, TimeoutResponse)]
     ELSE UNCHANGED << pc, responses >>
  /\ UNCHANGED << hvars, cvars >>
  /\ UNCHANGED << now, ticks, cache, msg, cfg, cacheKey, cached, snap, resp, cw, fetches, reads >>

\* A transport error answered by fetching again.
FetchFailRetry(m) ==
  /\ pc[m] = "fetching"
  /\ Len(fetches[m]) < 2
  /\ fetches' = [fetches EXCEPT ![m] = Append(@, RequestOf(msg[m], cfg[m]))]
  /\ UNCHANGED << hvars, cvars >>
  /\ UNCHANGED << now, ticks, cache, msg, pc, cfg, timer, cacheKey, cached, snap, resp, cw, responses, reads >>

\* The fetch rejects with a transport error.
FetchFail(m) ==
  /\ pc[m] = "fetching"
  /\ timer' = [timer EXCEPT ![m] = Cleared(@)]
  /\ responses' = [responses EXCEPT ![m] =
                     Append(@, [error |-> "request_failed", message |-> "Failed to fetch"])]
  /\ pc' = [pc EXCEPT ![m] = "done"]
  /\ UNCHANGED << hvars, cvars >>
  /\ UNCHANGED << now, ticks, cache, msg, cfg, cacheKey, cached, snap, resp, cw, fetches, reads >>

\* The fetch resolves with a Response; clearTimeout(timeout).
FetchResolve(m, status, body) ==
  /\ pc[m] = "fetching"
  /\ timer' = [timer EXCEPT ![m] = Cleared(@)]
  /\ resp' = [resp EXCEPT ![m] = [status |-> status, body |-> body]]
  /\ pc' = [pc EXCEPT ![m] = IF IsOk(status) THEN "readJson" ELSE "readText"]
  /\ UNCHANGED << hvars, cvars >>
  /\ UNCHANGED << now, ticks, cache, msg, cfg, cacheKey, cached, snap, cw, responses, fetches, reads >>

\* if (!resp.ok): the body text is read (best effort) and answered.
ReadText(m) ==
  /\ pc[m] = "readText"
  /\ responses' = [responses EXCEPT ![m] =
                     Append(@, ProxyErrorResponse(resp[m].status, resp[m].body))]
  /\ pc' = [pc EXCEPT ![m] = "done"]
  /\ UNCHANGED << hvars, cvars >>
  /\ UNCHANGED << now, ticks, cache, msg, cfg, timer, cacheKey, cached, snap, resp, cw, fetches, reads >>

\* resp.json().catch(() => null) settles and the branch of the kind answers;
\* a translation starts setCachedTranslation, whose storage read may throw
\* (swallowed by .catch(() => {})).
ReadJson(m, outcome) ==
  /\ pc[m] = "readJson"
  /\ LET data == resp[m].body
     IN /\ responses' = [responses EXCEPT ![m] =
             Append(@, IF msg[m].type = "TRANSLATE_TEXT" THEN TranslateResponse(data)
                       ELSE IF msg[m].type = "ANALYZE_TEXT" THEN AnalyzeResponse(data)
                       ELSE TtsResponse(data))]
        /\ IF WritesCache(msg[m], data)
           THEN /\ cw' = [cw EXCEPT ![m] =
                            [state |-> IF outcome = "throws" THEN "failed" ELSE "get",
                             translation |-> data.translation,
                             seq |-> Cardinality({k \in Slots : cw[k].state # "none"}) + 1]]
                /\ reads' = [reads EXCEPT ![m] = @ + 1]
           ELSE UNCHANGED << cw, reads >>
  /\ pc' = [pc EXCEPT ![m] = "done"]
  /\ UNCHANGED << hvars, cvars >>
  /\ UNCHANGED << now, ticks, cache, msg, cfg, timer, cacheKey, cached, snap, resp, fetches >>

\* setCachedTranslation's storage read callback: the map is read, the entry
\* set in memory, and the write of the whole map is issued.
CacheWriteRead(m, outcome) ==
  /\ cw[m].state = "get"
  /\ snap' = [snap EXCEPT ![m] = MapPut(MapOf(outcome), cacheKey[m], cw[m].translation, now)]
  /\ cw' = [cw EXCEPT ![m].state = "set"]
  /\ UNCHANGED << hvars, cvars >>
  /\ UNCHANGED << now, ticks, cache, msg, pc, cfg, timer, cacheKey, cached, resp, responses, fetches, reads >>

\* A write that sets the one entry in the stored map, not the whole map.
CacheWriteMerged(m) ==
  /\ cw[m].state = "set"
  /\ cache' = MapPut(cache, cacheKey[m], cw[m].translation, snap[m][cacheKey[m]].ts)
  /\ cw' = [cw EXCEPT ![m].state = "done"]
  /\ UNCHANGED << hvars, cvars >>
  /\ UNCHANGED << now, ticks, msg, pc, cfg, timer, cacheKey, cached, snap, resp, responses, fetches, reads >>

\* setCachedTranslation's storage write completes.
CacheWriteDone(m) ==
  /\ cw[m].state = "set"
  /\ cache' = snap[m]
  /\ cw' = [cw EXCEPT ![m].state = "done"]
  /\ UNCHANGED << hvars, cvars >>
  /\ UNCHANGED << now, ticks, msg, pc, cfg, timer, cacheKey, cached, snap, resp, responses, fetches, reads >>

\* Time passes.
Tick(d) ==
  /\ ticks < MaxTicks
  /\ ticks' = ticks + 1
  /\ now' = now + d
  /\ UNCHANGED << hvars, cvars >>
  /\ UNCHANGED << cache, msg, pc, cfg, timer, cacheKey, cached, snap, resp, cw, responses, fetches, reads >>

\* One step of the dispatcher and its environment E: the dispatches E.slots,
\* the messages E.messages they receive, the ways E.gets a storage read can
\* end, the stored configurations E.configs, and the proxy's answers E.bodies
\* (JSON) and E.texts (error bodies).
NextIn(E) ==
  \/ \E m \in E.slots, message \in E.messages, o \in E.gets : Deliver(m, message, o)
  \/ \E m \in E.slots, res \in E.configs : ConfigRead(m, res)
  \/ \E m \in E.slots, o \in E.gets : CacheRead(m, o)
  \/ \E m \in E.slots : CachePurgeDone(m)
  \/ \E m \in E.slots : TimerFire(m)
  \/ \E m \in E.slots : FetchFail(m)
  \/ \E m \in E.slots, st \in Statuses :
       \E b \in (IF IsOk(st) THEN E.bodies ELSE E.texts) : FetchResolve(m, st, b)
  \/ \E m \in E.slots : ReadText(m)
  \/ \E m \in E.slots, o \in E.gets : ReadJson(m, o)
  \/ \E m \in E.slots, o \in E.gets \ {"throws"} : CacheWriteRead(m, o)
  \/ \E m \in E.slots : CacheWriteDone(m)
  \/ \E d \in Deltas : Tick(d)

\* Two dispatches that may overlap, on translate and analyze requests, with
\* a storage whose reads succeed and no proxy configured.
Next ==
  NextIn([slots |-> Slots, messages |-> CoreMessages, gets |-> {"items"},
          configs |-> {[unset |-> TRUE]}, bodies |-> CoreBodies,
          texts |-> {"unreadable"}])

Spec == Init /\ [][Next]_vars

\* Two dispatches that may overlap after a restart of the background script,
\* whose cache may hold an entry of an earlier run.
SpecStored == InitOne /\ [][Next]_vars

\* One dispatch, on every message, storage behaviour, configuration and
\* proxy answer.
NextOne ==
  NextIn([slots |-> {1}, messages |-> Messages, gets |-> GetOutcomes,
          configs |-> ConfigItems, bodies |-> JsonBodies, texts |-> BodyTexts])

SpecOne == InitOne /\ [][NextOne]_vars

\* Cache keys alone: each dispatch computes text, target and cacheKey of a
\* translate request, for targets that hold the key's separator.
KeyTargets ==
  { << >>, Lit(<<"i", "t">>), Lit(<<"e", "n">>), Rep("a", 1), Lit(<<"a", "|", "b">>) }

KeyTexts ==
  { A1, Concat(Concat(Rep(SP, 1), A1), Rep(SP, 1)), Lit(<<"b", "|", "a">>) }

KeyMessages ==
  [type : {"TRANSLATE_TEXT"}, text : KeyTexts]
    \cup [type : {"TRANSLATE_TEXT"}, text : KeyTexts, target : KeyTargets]

ComputeKey(m, message) ==
  /\ pc[m] = "idle"
  /\ msg' = [msg EXCEPT ![m] = message]
  /\ cacheKey' = [cacheKey EXCEPT ![m] = KeyOfMessage(message)]
  /\ pc' = [pc EXCEPT ![m] = "keyed"]
  /\ UNCHANGED << hvars, cvars >>
  /\ UNCHANGED << now, ticks, cache, cfg, timer, cached, snap, resp, cw, responses, fetches, reads >>

NextKey == \E m \in Slots, message \in KeyMessages : ComputeKey(m, message)

KeySpec == Init /\ [][NextKey]_vars

\* ------------------------------------------------------------ proxy handler
\* The serverless handler of translate.js, which serves the dispatcher's
\* fetch. JSON values carry their JavaScript type; a string whose characters
\* the handler inspects is run-length encoded (field v), any other string is
\* an atom (field a).

HandlerMaxText == 10000

JNull == [t |-> "null"]
JStr(s) == [t |-> "string", v |-> s]
JAtom(x) == [t |-> "string", a |-> x]
JBool(x) == [t |-> "boolean", b |-> x]
JNum(x) == [t |-> "number", n |-> x]

\* JavaScript truthiness of a value.
JTruthy(x) ==
  IF x.t = "null" THEN FALSE
  ELSE IF x.t = "boolean" THEN x.b
  ELSE IF x.t = "number" THEN x.n # 0
  ELSE IF x.t = "string"
  THEN (IF Has(x, "v") THEN x.v # << >>
        ELSE IF Has(x, "p") THEN x.p # << >>
        ELSE x.a # "")
  ELSE TRUE

\* A destructured field that is present and truthy.
FieldTruthy(p, f) == Has(p, f) /\ JTruthy(p[f])

\* JSON.stringify of the dispatcher's request body (lines 91, 120, 142).
ToJson(body) ==
  [f \in DOMAIN body |->
     IF f \in {"text", "target"} THEN JStr(body[f])
     ELSE IF f = "tts" THEN JBool(body[f])
     ELSE IF f = "voice" /\ body[f] = "null" THEN JNull
     ELSE JAtom(body[f])]

\* The text of a request body: JSON of a value, or something JSON.parse rejects.
JsonText(x) == [json |-> x]
Garbage == [garbage |-> TRUE]
StreamError == [streamError |-> TRUE]

\* const { text, target, tts, voice, action } = req.body || {};
\* a body that is not an object has none of the fields.
PayloadOf(body) ==
  IF Has(body, "undefined") \/ Has(body, "t") THEN EmptyMap ELSE body

SentenceText == Concat(Concat(A1, Rep(SP, 1)), Rep("b", 1))
QuestionText == Concat(A1, Rep("?", 1))

\* text as a client can send it: empty, blank, a word, a sentence, a word
\* with terminal punctuation, at the limit, over it, not a string.
HandlerTexts ==
  { JStr(<< >>), JStr(Rep(SP, 1)), JStr(A1), JStr(SentenceText),
    JStr(QuestionText), JStr(Rep("a", HandlerMaxText)),
    JStr(Rep("a", HandlerMaxText + 1)), JNum(5) }

HandlerActions == {JAtom("analyze"), JAtom("other")}
HandlerTts == {JBool(TRUE), JBool(FALSE), JAtom("yes"), JNum(0)}
HandlerVoices == {JAtom("v1"), JNull}

\* The JSON objects a client can post.
Payloads ==
  {EmptyMap}
    \cup [tts : HandlerTts]
    \cup [text : HandlerTexts]
    \cup [text : HandlerTexts, target : {JStr(Lit(<<"e", "n">>)), JStr(<< >>)}]
    \cup [text : HandlerTexts, action : HandlerActions]
    \cup [text : HandlerTexts, tts : HandlerTts]
    \cup [text : HandlerTexts, tts : HandlerTts, voice : HandlerVoices]
    \cup [text : HandlerTexts, action : HandlerActions, tts : {JBool(TRUE)}]

Methods == {"POST", "OPTIONS", "GET", "PUT"}

\* A request as the platform hands it to the handler: req.body is the parsed
\* JSON when the platform parsed it and undefined when it did not, in which
\* case the handler reads the stream raw (which may fail).
HandlerRequests ==
  {[method |-> m, body |-> b, raw |-> JsonText(b)] :
     m \in Methods, b \in Payloads \cup {JNum(5)}}
    \cup [method : Methods, body : {Undefined},
          raw : {JsonText(p) : p \in Payloads \cup {JNull}} \cup {Garbage, StreamError}]

\* process.env: every combination of the chat key, the speech key and the
\* default voice being set, and deployments that name the model, set the
\* speech key under its second name, or leave the chat key empty.
Envs ==
  [OPENAI_API_KEY : {"null", "sk"}, OPENAI_MODEL : {"null"},
   ELEVENLABS_KEY : {"null", "el1"}, ELEVEN_API_KEY : {"null"},
   ELEVEN_VOICE_ID : {"null", "envVoice"}]
    \cup [OPENAI_API_KEY : {"sk"}, OPENAI_MODEL : {"gpt-4o"},
          ELEVENLABS_KEY : {"null", "el1"}, ELEVEN_API_KEY : {"el2"},
          ELEVEN_VOICE_ID : {"null"}]
    \cup [OPENAI_API_KEY : {""}, OPENAI_MODEL : {"null"},
          ELEVENLABS_KEY : {"el1"}, ELEVEN_API_KEY : {"null"},
          ELEVEN_VOICE_ID : {"envVoice"}]

\* a || b on strings, null being "null"
OrElse(a, b) == IF a # "null" /\ a # "" THEN a ELSE b

\* const model = process.env.OPENAI_MODEL || 'gpt-3.5-turbo';
ModelOf(e) == OrElse(e.OPENAI_MODEL, "gpt-3.5-turbo")

\* const ELEVEN_KEY = process.env.ELEVENLABS_KEY || process.env.ELEVEN_API_KEY || null;
ElevenKeyOf(e) == OrElse(e.ELEVENLABS_KEY, OrElse(e.ELEVEN_API_KEY, "null"))

\* A voice taken from the environment only.
ElevenVoiceEnvOnly(e, p) == OrElse(e.ELEVEN_VOICE_ID, "null")

\* const ELEVEN_VOICE = process.env.ELEVEN_VOICE_ID || voice || null;
ElevenVoiceOf(e, p) ==
  OrElse(e.ELEVEN_VOICE_ID,
         IF FieldTruthy(p, "voice") /\ Has(p.voice, "a") THEN p.voice.a ELSE "null")

CorsHeaders ==
  { <<"Access-Control-Allow-Origin", "*">>,
    <<"Access-Control-Allow-Headers", "Content-Type, x-proxy-token">>,
    <<"Access-Control-Allow-Methods", "POST, OPTIONS">> }

\* res.status(s).json(b); res.json(b) is status 200
Reply(status, body) == [status |-> status, body |-> body]

\* res.status(200).end()
NoBody == [end |-> TRUE]

\* A validation without the length bound.
HandlerValidationNoBound(p) ==
  IF ~FieldTruthy(p, "text") \/ p.text.t # "string" THEN "missing_text" ELSE "ok"

HandlerValidationOffByOne(p) ==
  IF ~FieldTruthy(p, "text") \/ p.text.t # "string" THEN "missing_text"
  ELSE IF StrLen(p.text.v) >= HandlerMaxText THEN "text_too_long"
  ELSE "ok"

\* if (!text || typeof text !== 'string') ...; if (text.length > 10000) ...
HandlerValidation(p) ==
  IF ~FieldTruthy(p, "text") \/ p.text.t # "string" THEN "missing_text"
  ELSE IF StrLen(p.text.v) > HandlerMaxText THEN "text_too_long"
  ELSE "ok"

\* A routing that tests tts before action.
RouteOfTtsFirst(p) ==
  IF FieldTruthy(p, "tts") THEN "tts"
  ELSE IF Has(p, "action") /\ p.action = JAtom("analyze") THEN "analyze"
  ELSE "translate"

\* if (action === 'analyze') ... if (tts) ... else the default translation
RouteOf(p) ==
  IF Has(p, "action") /\ p.action = JAtom("analyze") THEN "analyze"
  ELSE IF FieldTruthy(p, "tts") THEN "tts"
  ELSE "translate"

\* trimmed.split(/\s+/).length: one more than the whitespace runs of trimmed
WordCount(trimmed) == Cardinality({i \in 1..Len(trimmed) : IsWhitespace(trimmed[i].c)}) + 1

\* /[.!?;]/.test(trimmed)
HasTerminal(trimmed) == \E i \in 1..Len(trimmed) : trimmed[i].c \in {".", "!", "?", ";"}

\* const isSingleWord = wordCount === 1 && !/[.!?;]/.test(trimmed);
IsSingleWord(trimmed) == WordCount(trimmed) = 1 /\ ~HasTerminal(trimmed)

\* The call to the chat-completion API of the Analyze path (lines 44-102).
AnalyzeCall(p, e) ==
  [provider |-> "openai", purpose |-> "analyze",
   key |-> e.OPENAI_API_KEY, model |-> ModelOf(e),
   prompt |-> IF IsSingleWord(Trim(p.text.v)) THEN "word" ELSE "sentence",
   input |-> Trim(p.text.v)]

\* The call to the speech API (lines 184-192).
TtsCall(p, e) ==
  [provider |-> "elevenlabs", voice |-> ElevenVoiceOf(e, p),
   key |-> ElevenKeyOf(e), input |-> p.text.v]

\* The call to the chat-completion API of the Translate path (lines 216-234).
TranslateCall(p, e) ==
  [provider |-> "openai", purpose |-> "translate",
   key |-> e.OPENAI_API_KEY, model |-> ModelOf(e),
   target |-> IF FieldTruthy(p, "target") THEN p.target ELSE JStr(Lit(<<"i", "t">>)),
   input |-> p.text.v]

\* A check that takes every deployment for configured.
KeyConfiguredAlways(e) == TRUE

\* const OPENAI_KEY = process.env.OPENAI_API_KEY; if (!OPENAI_KEY) ...
KeyConfigured(e) == OrElse(e.OPENAI_API_KEY, "null") # "null"

\* A gate without the OPTIONS branch.
MethodGateNoOptions(method) ==
  IF method # "POST" THEN "method_not_allowed" ELSE "post"

\* A gate that lets every method but OPTIONS through.
MethodGateAllowsAll(method) ==
  IF method = "OPTIONS" THEN "options" ELSE "post"

\* if (req.method === 'OPTIONS') ...; if (req.method !== 'POST') ...
MethodGate(method) ==
  IF method = "OPTIONS" THEN "options"
  ELSE IF method # "POST" THEN "method_not_allowed"
  ELSE "post"

\* The handler from the CORS headers to its first await or its response, for
\* a request whose body is b: the response, or the path and its provider call.
Process(method, b, e) ==
  LET p == PayloadOf(b)
      v == HandlerValidation(p)
  IN IF MethodGate(method) = "options" THEN [reply |-> Reply(200, NoBody)]
     ELSE IF MethodGate(method) = "method_not_allowed"
     THEN [reply |-> Reply(405, [error |-> "method_not_allowed"])]
     ELSE IF v # "ok" THEN [reply |-> Reply(400, [error |-> v])]
     ELSE IF ~KeyConfigured(e)
     THEN [reply |-> Reply(500, [error |-> "server_misconfigured"])]
     ELSE IF RouteOf(p) = "analyze" THEN [path |-> "analyze", call |-> AnalyzeCall(p, e)]
     ELSE IF RouteOf(p) = "tts"
     THEN IF ElevenKeyOf(e) = "null" \/ ElevenVoiceOf(e, p) = "null"
          THEN [path |-> "tts",
                reply |-> Reply(500, [error |-> "tts_not_configured",
                   detail |-> "Missing ELEVENLABS_KEY or ELEVEN_VOICE_ID in server env"])]
          ELSE [path |-> "tts", call |-> TtsCall(p, e)]
     ELSE [path |-> "translate", call |-> TranslateCall(p, e)]

\* The text a chat completion returns, as a sequence of pieces: whitespace,
\* a code-fence marker (``` or ```json), prose (no braces, no fence), a stray
\* brace, or the text of one complete JSON value.
WS == [k |-> "ws"]
Fence(lang) == [k |-> "fence", lang |-> lang]
Prose == [k |-> "prose"]
LBrace == [k |-> "lbrace"]
RBrace == [k |-> "rbrace"]
Val(j) == [k |-> "value", json |-> j]

\* A JSON object with the fields o (a field's value is named: "[]" an empty
\* array, "null" null, anything else a truthy value), an empty array, and an
\* array whose one element is the object item.
JObj(o) == [t |-> "object", o |-> o]
JArr == [t |-> "array"]
JArrOf(item) == [t |-> "array", item |-> item]

\* The text of the JSON value j has braces in it.
Braced(j) == j.t = "object" \/ (j.t = "array" /\ Has(j, "item"))

Inked(c) == {i \in 1..Len(c) : c[i].k # "ws"}
MinOf(S) == CHOOSE i \in S : \A j \in S : i <= j
MaxOf(S) == CHOOSE i \in S : \A j \in S : i >= j

\* content.trim()
TrimPieces(c) == IF Inked(c) = {} THEN << >> ELSE SubSeq(c, MinOf(Inked(c)), MaxOf(Inked(c)))

\* A strip of the first fence marker wherever it is in the text.
StripFirstFence(c) ==
  IF \E i \in 1..Len(c) : c[i].k = "fence"
  THEN LET i == MinOf({k \in 1..Len(c) : c[k].k = "fence"})
           rest == SubSeq(c, i + 1, Len(c))
       IN SubSeq(c, 1, i - 1)
            \o (IF Inked(rest) = {} THEN << >>
                ELSE SubSeq(rest, MinOf(Inked(rest)), Len(rest)))
  ELSE c

\* content.replace(/^```(?:json)?\s*/i, '')
StripLeadingFence(c) ==
  IF c # << >> /\ c[1].k = "fence"
  THEN LET rest == Tail(c)
       IN IF Inked(rest) = {} THEN << >> ELSE SubSeq(rest, MinOf(Inked(rest)), Len(rest))
  ELSE c

\* content.replace(/```\s*$/i, ''): a bare ``` followed only by whitespace
StripTrailingFence(c) ==
  IF Inked(c) # {} /\ c[MaxOf(Inked(c))] = Fence(FALSE)
  THEN SubSeq(c, 1, MaxOf(Inked(c)) - 1)
  ELSE c

\* lines 114-117
CleanContent(c) == StripTrailingFence(StripLeadingFence(TrimPieces(c)))

\* JSON.parse(s): the value when s is one JSON value with whitespace around
\* it, otherwise a SyntaxError.
Parses(c) == Cardinality(Inked(c)) = 1 /\ c[MinOf(Inked(c))].k = "value"
ParseOf(c) == c[MinOf(Inked(c))].json

HasOpen(x) == x.k = "lbrace" \/ (x.k = "value" /\ Braced(x.json))
HasClose(x) == x.k = "rbrace" \/ (x.k = "value" /\ Braced(x.json))

\* content.match(/\{[\s\S]*\}/): from the first '{' to the last '}'
Matches(c) ==
  /\ \E i \in 1..Len(c) : HasOpen(c[i])
  /\ \E j \in 1..Len(c) : HasClose(c[j])
  /\ LET i == MinOf({k \in 1..Len(c) : HasOpen(c[k])})
         j == MaxOf({k \in 1..Len(c) : HasClose(c[k])})
     IN j > i \/ (j = i /\ c[i].k = "value")
MatchOf(c) ==
  LET i == MinOf({k \in 1..Len(c) : HasOpen(c[k])})
      j == MaxOf({k \in 1..Len(c) : HasClose(c[k])})
  IN IF i = j /\ c[i].json.t = "array" THEN << Val(c[i].json.item) >>
     ELSE SubSeq(c, i, j)

\* A defaulting that knows the word type only.
EnsureFieldsWordOnly(j) ==
  IF j.t = "object" /\ Has(j.o, "type") /\ j.o.type = "word"
  THEN JObj([f \in DOMAIN j.o \cup {"synonyms", "antonyms", "examples"} |->
               IF f \in DOMAIN j.o THEN j.o[f] ELSE "[]"])
  ELSE j

\* parsed.x = parsed.x || [] for the fields of the parsed type (lines 158-165)
EnsureFields(j) ==
  IF j.t = "object" /\ Has(j.o, "type") /\ j.o.type \in {"word", "sentence"}
  THEN LET req1 == IF j.o.type = "word" THEN {"synonyms", "antonyms", "examples"}
                   ELSE {"words", "examples"}
       IN JObj([f \in DOMAIN j.o \cup req1 |->
                  IF f \in req1 /\ (f \notin DOMAIN j.o \/ j.o[f] = "null") THEN "[]"
                  ELSE j.o[f]])
  ELSE j

InvalidAnalysis(c, hint) ==
  Reply(502, [error |-> "invalid_analysis", raw |-> c, hint |-> hint])

\* if (!parsed || typeof parsed !== 'object') ... return res.json({ analysis: parsed })
AnalysisReply(parsed, c) ==
  IF ~JTruthy(parsed) \/ parsed.t \notin {"object", "array"}
  THEN InvalidAnalysis(c, "Parsed result is not an object")
  ELSE Reply(200, [analysis |-> EnsureFields(parsed)])

\* A recovery that looks for braces before it tries the whole text.
AnalyzeContentReplyExtractFirst(content) ==
  LET c == CleanContent(content)
  IN IF Matches(c) /\ Parses(MatchOf(c)) THEN AnalysisReply(ParseOf(MatchOf(c)), c)
     ELSE IF Parses(c) THEN AnalysisReply(ParseOf(c), c)
     ELSE InvalidAnalysis(c, "No JSON structure found in response")

\* Lines 111-167: the reply for the content of the completion.
AnalyzeContentReply(content) ==
  LET c == CleanContent(content)
  IN IF Parses(c) THEN AnalysisReply(ParseOf(c), c)
     ELSE IF Matches(c)
     THEN IF Parses(MatchOf(c)) THEN AnalysisReply(ParseOf(MatchOf(c)), c)
          ELSE InvalidAnalysis(c, "Could not parse model output as JSON")
     ELSE InvalidAnalysis(c, "No JSON structure found in response")

\* A catch block that answers with a code of its own making.
ProxyFailedUncoded(message) ==
  [status |-> 500, body |-> [error |-> message, message |-> message]]

\* catch (err) of the handler (lines 250-255)
ProxyFailed(message) == Reply(500, [error |-> "proxy_failed", message |-> message])

\* Buffer.from(arrayBuffer).toString('base64')
Base64(bytes) == IF bytes = "ABC" THEN "QUJD" ELSE ""

\* data?.choices?.[0]?.message?.content
ContentOf(data) == IF Has(data, "content") THEN data.content ELSE Undefined

\* The reply once the provider's Response body has been read: b is what
\* resp.text(), resp.json() or resp.arrayBuffer() gives, [unreadable] when
\* that promise rejects.
BodyReply(path, status, b) ==
  IF path = "tts"
  THEN IF ~IsOk(status)
       THEN Reply(502, [error |-> "eleven_error", status |-> status,
                        detail |-> IF Has(b, "unreadable") THEN "" ELSE b.text])
       ELSE IF Has(b, "unreadable")
       THEN Reply(502, [error |-> "tts_failed", message |-> "body unreadable"])
       ELSE Reply(200, [audio |-> Base64(b.bytes), mime |-> "audio/mpeg"])
  ELSE IF Has(b, "unreadable") THEN ProxyFailed("body unreadable")
  ELSE IF ~IsOk(status) THEN Reply(502, [error |-> "openai_error", detail |-> b.text])
  ELSE LET content == ContentOf(b)
       IN IF path = "analyze"
          THEN IF Has(content, "undefined") \/ ~JTruthy(content)
               THEN AnalyzeContentReply(<< >>)
               ELSE IF content.t # "string" THEN ProxyFailed("content.trim is not a function")
               ELSE AnalyzeContentReply(content.p)
          ELSE IF Has(content, "undefined") \/ content.t = "null"
               THEN Reply(502, [error |-> "no_translation", raw |-> b])
               ELSE IF content.t # "string"
               THEN ProxyFailed("content.trim is not a function")
               ELSE IF TrimPieces(content.p) = << >>
               THEN Reply(502, [error |-> "no_translation", raw |-> b])
               ELSE Reply(200, [translation |-> TrimPieces(content.p)])

\* The completion texts of the providers.
JText(c) == [t |-> "string", p |-> c]

WordObject == JObj([type |-> "word", definition |-> "d", synonyms |-> "[s]"])

Contents ==
  { << >>,
    << WS >>,
    << Prose >>,
    << WS, Prose, WS >>,
    << Val(WordObject) >>,
    << Val(JObj([type |-> "sentence", meaning |-> "m"])) >>,
    << Val(JObj([definition |-> "d"])) >>,
    << Val(JObj([type |-> "word", synonyms |-> "null"])) >>,
    << Val(JObj([type |-> "other", meaning |-> "m"])) >>,
    << Val(JArr) >>, << Val(JNull) >>, << Val(JNum(5)) >>,
    << Val(JArrOf(WordObject)) >>,
    << Fence(TRUE), WS, Val(WordObject), WS, Fence(FALSE) >>,
    << Prose, WS, Fence(TRUE), WS, Val(WordObject), WS, Fence(FALSE) >>,
    << Prose, WS, Val(WordObject), WS, Prose >>,
    << Fence(TRUE), WS, Prose, WS, Fence(FALSE) >>,
    << Prose, WS, LBrace, Prose, RBrace >>,
    << RBrace, Prose, LBrace >>,
    << Val(WordObject), WS, Val(WordObject) >> }

\* What reading the provider's Response body can give, by path and status.
Bodies(path, status) ==
  IF ~IsOk(status) THEN {[unreadable |-> TRUE], [text |-> "quota exceeded"]}
  ELSE IF path = "tts" THEN {[unreadable |-> TRUE], [bytes |-> "ABC"]}
  ELSE {[unreadable |-> TRUE], [choices |-> "none"], [content |-> JNum(5)],
        [content |-> JNull]}
         \cup {[content |-> JText(c)] : c \in Contents}

UpstreamStatuses == {200, 429}

\* ----------------------------------------------------------- handler steps

\* From the CORS headers on (line 17), for the body b.
Continue(method, b, e) ==
  LET r == Process(method, b, e)
  IN /\ hdrs' = CorsHeaders
     /\ hpath' = IF Has(r, "path") THEN r.path ELSE "none"
     /\ IF Has(r, "reply")
        THEN /\ hres' = Append(hres, r.reply)
             /\ hpc' = "done"
             /\ UNCHANGED upstream
        ELSE /\ upstream' = Append(upstream, r.call)
             /\ hpc' = "upstream"
             /\ UNCHANGED hres

\* The platform calls handler(req, res): a POST without a parsed body waits
\* for the request stream, any other request goes on.
Invoke(request, e) ==
  /\ hpc = "idle"
  /\ req' = request
  /\ env' = e
  /\ IF request.method = "POST" /\ Has(request.body, "undefined")
     THEN /\ hpc' = "readBody"
          /\ UNCHANGED << hpath, hdrs, hres, upstream >>
     ELSE Continue(request.method, request.body, e)
  /\ UNCHANGED uresp
  /\ UNCHANGED << dvars, cvars >>

\* A body reader that takes a body it cannot parse for an empty object.
BodyReadLenient ==
  /\ hpc = "readBody"
  /\ req' = [req EXCEPT !.body = IF Has(req.raw, "json") THEN req.raw.json ELSE EmptyMap]
  /\ Continue(req.method, IF Has(req.raw, "json") THEN req.raw.json ELSE EmptyMap, env)
  /\ UNCHANGED << env, uresp >>
  /\ UNCHANGED << dvars, cvars >>

\* The request stream ends (or fails) and JSON.parse runs on it.
BodyRead ==
  /\ hpc = "readBody"
  /\ IF Has(req.raw, "json")
     THEN /\ req' = [req EXCEPT !.body = req.raw.json]
          /\ Continue(req.method, req.raw.json, env)
     ELSE /\ hres' = Append(hres, Reply(400, [error |-> "invalid_json",
                                               detail |-> "SyntaxError"]))
          /\ hpc' = "done"
          /\ UNCHANGED << req, hpath, hdrs, upstream >>
  /\ UNCHANGED << env, uresp >>
  /\ UNCHANGED << dvars, cvars >>

\* A settling in which a failed speech call is left to the outer catch.
UpstreamSettleOuterCatch(o) ==
  /\ hpc = "upstream"
  /\ IF Has(o, "reject")
     THEN /\ hres' = Append(hres, ProxyFailed("fetch failed"))
          /\ hpc' = "done"
          /\ UNCHANGED uresp
     ELSE /\ uresp' = [status |-> o.status, body |-> Null]
          /\ hpc' = "body"
          /\ UNCHANGED hres
  /\ UNCHANGED << req, env, hpath, hdrs, upstream >>
  /\ UNCHANGED << dvars, cvars >>

\* The provider call settles: it rejects (a transport failure), or resolves
\* with a Response.
UpstreamSettle(o) ==
  /\ hpc = "upstream"
  /\ IF Has(o, "reject")
     THEN /\ hres' = Append(hres,
                IF hpath = "tts"
                THEN Reply(502, [error |-> "tts_failed", message |-> "fetch failed"])
                ELSE ProxyFailed("fetch failed"))
          /\ hpc' = "done"
          /\ UNCHANGED uresp
     ELSE /\ uresp' = [status |-> o.status, body |-> Null]
          /\ hpc' = "body"
          /\ UNCHANGED hres
  /\ UNCHANGED << req, env, hpath, hdrs, upstream >>
  /\ UNCHANGED << dvars, cvars >>

\* A body read whose failure on a chat-completion call escapes the handler.
UpstreamBodyNoCatch(b) ==
  /\ hpc = "body"
  /\ uresp' = [uresp EXCEPT !.body = b]
  /\ hres' = IF Has(b, "unreadable") /\ hpath # "tts" THEN hres
             ELSE Append(hres, BodyReply(hpath, uresp.status, b))
  /\ hpc' = "done"
  /\ UNCHANGED << req, env, hpath, hdrs, upstream >>
  /\ UNCHANGED << dvars, cvars >>

\* The provider's Response body has been read (or the read failed).
UpstreamBody(b) ==
  /\ hpc = "body"
  /\ uresp' = [uresp EXCEPT !.body = b]
  /\ hres' = Append(hres, BodyReply(hpath, uresp.status, b))
  /\ hpc' = "done"
  /\ UNCHANGED << req, env, hpath, hdrs, upstream >>
  /\ UNCHANGED << dvars, cvars >>

\* The request a fetch of the dispatcher puts on the wire, as the platform
\* hands it to the handler (with the body parsed, or left on the stream).
WireRequest(f, parsed) ==
  [method |-> f.method,
   body |-> IF parsed THEN ToJson(f.body) ELSE Undefined,
   raw |-> JsonText(ToJson(f.body))]

\* The proxy is this handler: it is invoked with the request of a fetch in
\* flight.
Serve(m, parsed, e) ==
  /\ pc[m] = "fetching"
  /\ Invoke(WireRequest(fetches[m][1], parsed), e)

UpstreamOutcomes == {[reject |-> TRUE]} \cup [status : UpstreamStatuses]

NextHandler ==
  \/ \E request \in HandlerRequests, e \in Envs : Invoke(request, e)
  \/ BodyRead
  \/ \E o \in UpstreamOutcomes : UpstreamSettle(o)
  \/ \E b \in Bodies(hpath, uresp.status) : UpstreamBody(b)

\* The handler alone, on every request, configuration and provider answer.
HandlerSpec == Init /\ [][NextHandler]_vars

\* Requests of the three kinds and of an unknown one, bare and padded, with
\* and without target and voice, and requests the listener turns away: no
\* text, a blank text, a text one character too long.
WireMessages ==
  [type : {"TRANSLATE_TEXT", "ANALYZE_TEXT", "GET_TTS", "PING"},
   text : {A1, Concat(Concat(Rep(SP, 1), Rep("a", MaxTextLength)), Rep(SP, 1))}]
    \cup {[type |-> "TRANSLATE_TEXT", text |-> A1, target |-> Lit(<<"e", "n">>)],
          [type |-> "GET_TTS", text |-> A1, voice |-> "v1"],
          [type |-> "ANALYZE_TEXT"],
          [type |-> "ANALYZE_TEXT", text |-> Rep(SP, 2)],
          [type |-> "GET_TTS", text |-> Rep("a", MaxTextLength + 1)]}

\* No configuration stored, a token stored, empty strings stored.
WireConfigs ==
  { [unset |-> TRUE], [proxyToken |-> "secret"], [proxyUrl |-> "", proxyToken |-> ""] }

WireEnvs ==
  { e \in Envs : e.OPENAI_MODEL = "null" /\ e.ELEVEN_VOICE_ID = "null" }

\* One dispatch whose fetch is served by the handler; the answer the
\* dispatcher gets is any answer a proxy can give.
NextWire ==
  \/ NextIn([slots |-> {1}, messages |-> WireMessages, gets |-> {"items"},
             configs |-> WireConfigs, bodies |-> CoreBodies,
             texts |-> {"unreadable"}])
  \/ \E parsed \in BOOLEAN, e \in WireEnvs : Serve(1, parsed, e)
  \/ BodyRead
  \/ \E o \in UpstreamOutcomes : UpstreamSettle(o)
  \/ \E b \in Bodies(hpath, uresp.status) : UpstreamBody(b)

WireSpec == InitOne /\ [][NextWire]_vars

\* ----------------------------------------------------------- content script
\* The selection bubble of content.js: its click handler and the cooldown
\* between the requests it sends.

\* How chrome.runtime.sendMessage of a click ends: the message is sent, or
\* the call throws (extension context invalidated) and nothing is sent.
SendOutcomes == {"sent", "throws"}

\* A click handler whose cooldown test lets the boundary wait for more.
BubbleClickInclusive(o) ==
  /\ clicks < MaxClicks
  /\ clicks' = clicks + 1
  /\ IF clock - lastRequestTime <= REQUEST_COOLDOWN_MS
     THEN UNCHANGED << lastRequestTime, sent >>
     ELSE /\ lastRequestTime' = clock
          /\ sent' = IF o = "sent" THEN Append(sent, clock) ELSE sent
  /\ UNCHANGED << clock, waits >>
  /\ UNCHANGED << dvars, hvars >>

\* The bubble's click handler (lines 139-163), up to the message it sends.
BubbleClick(o) ==
  /\ clicks < MaxClicks
  /\ clicks' = clicks + 1
  /\ IF clock - lastRequestTime < REQUEST_COOLDOWN_MS
     THEN UNCHANGED << lastRequestTime, sent >>
     ELSE /\ lastRequestTime' = clock
          /\ sent' = IF o = "sent" THEN Append(sent, clock) ELSE sent
  /\ UNCHANGED << clock, waits >>
  /\ UNCHANGED << dvars, hvars >>

\* The time between two clicks: a moment, just under the cooldown, the
\* cooldown, just over it.
Pauses == {1, REQUEST_COOLDOWN_MS - 1, REQUEST_COOLDOWN_MS, REQUEST_COOLDOWN_MS + 1}

\* Time passes in the page.
Wait(d) ==
  /\ waits < MaxWaits
  /\ waits' = waits + 1
  /\ clock' = clock + d
  /\ UNCHANGED << lastRequestTime, sent, clicks >>
  /\ UNCHANGED << dvars, hvars >>

NextContent ==
  \/ \E o \in SendOutcomes : BubbleClick(o)
  \/ \E d \in Pauses : Wait(d)

\* The content script alone: clicks on the bubble as time passes.
ContentSpec == Init /\ [][NextContent]_vars

\* ------------------------------------------------------------------ claims

Kinds == {"TRANSLATE_TEXT", "ANALYZE_TEXT", "GET_TTS"}

Delivered(m) == pc[m] # "idle"

\* The listener's body for dispatch m has come to its end.
Ended(m) == pc[m] \in {"done", "ignored", "rejected"}

Recognized(message) == Has(message, "type") /\ message.type \in Kinds

RECURSIVE SumRuns(_, _, _)
SumRuns(s, i, j) == IF i > j THEN 0 ELSE s[i].n + SumRuns(s, i + 1, j)

\* Length of message.text after trimming, counted on the raw text: the
\* characters from the first to the last one that is not whitespace.
TrimmedLength(message) ==
  LET raw == IF Has(message, "text") THEN message.text ELSE << >>
      ink == {i \in 1..Len(raw) : raw[i].c # " "}
  IN IF ink = {} THEN 0
     ELSE SumRuns(raw, CHOOSE i \in ink : \A j \in ink : i <= j,
                       CHOOSE i \in ink : \A j \in ink : i >= j)

ErrorOf(r) == IF Has(r, "error") THEN r.error ELSE "none"

\* C1 (as claimed): every message delivered to the listener is answered -- a
\* listener body that has come to its end has called sendResponse.
C1_AlwaysResponds ==
  \A m \in Slots : Ended(m) => Len(responses[m]) >= 1

\* C2: for a request of a recognized kind, a trimmed text of length 0 is
\* answered empty_text and one longer than 10000 text_too_long, both without
\* any fetch or storage read; a trimmed length in 1..10000 never gets either
\* validation error.
C2_Validation ==
  \A m \in Slots :
    (Delivered(m) /\ Recognized(msg[m])) =>
      LET n == TrimmedLength(msg[m])
      IN /\ n = 0 =>
              /\ responses[m] = << [error |-> "empty_text"] >>
              /\ fetches[m] = << >> /\ reads[m] = 0
         /\ n > 10000 =>
              /\ responses[m] = << [error |-> "text_too_long"] >>
              /\ fetches[m] = << >> /\ reads[m] = 0
         /\ (n >= 1 /\ n <= 10000) =>
              \A i \in 1..Len(responses[m]) :
                ErrorOf(responses[m][i]) \notin {"empty_text", "text_too_long"}

\* C2 witness: a padded text whose trimmed length is exactly 10000 passed
\* validation and its fetch was issued.
C2_Witness ==
  \E m \in Slots :
    /\ Delivered(m) /\ Recognized(msg[m])
    /\ TrimmedLength(msg[m]) = 10000 /\ StrLen(msg[m].text) = 10002
    /\ fetches[m] # << >>

\* C3 (as claimed): validation order is empty text, text too long,
\* unrecognized kind -- a finished dispatch of a request whose kind is none of
\* the three is answered unknown_message_type without a fetch when its text
\* is valid, and the text error when its text is not.
C3_ValidationOrder ==
  \A m \in Slots :
    (Ended(m) /\ ~Recognized(msg[m])) =>
      LET n == TrimmedLength(msg[m])
      IN IF n = 0 THEN responses[m] = << [error |-> "empty_text"] >>
         ELSE IF n > 10000 THEN responses[m] = << [error |-> "text_too_long"] >>
         ELSE /\ responses[m] = << [error |-> "unknown_message_type"] >>
              /\ fetches[m] = << >>

\* C9 (as claimed): two translate requests get the same cache key if and only
\* if their targets (defaulted to "it") and their trimmed texts are equal.
C9_KeyInjective ==
  \A m1, m2 \in Slots :
    (pc[m1] = "keyed" /\ pc[m2] = "keyed") =>
      ( cacheKey[m1] = cacheKey[m2]
          <=> ( TargetOf(msg[m1]) = TargetOf(msg[m2])
                /\ TextOf(msg[m1]) = TextOf(msg[m2]) ) )

\* C4: when the deadline timer fires on a dispatch whose fetch has not
\* resolved, at least 15000 ms (25000 ms for GET_TTS) have passed since the
\* timer was armed, the fetch is over without a Response, the one answer is
\* {error: timeout}, and the dispatch never calls setCachedTranslation.
C4_Timeout ==
  \A m \in Slots :
    (timer[m].state = "fired" /\ fetches[m] # << >>) =>
      /\ now - timer[m].armedAt >= (IF msg[m].type = "GET_TTS" THEN 25000 ELSE 15000)
      /\ pc[m] = "done"
      /\ resp[m] = NoResp
      /\ responses[m] = << [error |-> "timeout"] >>
      /\ cw[m].state = "none"

\* C4 witness: a GET_TTS dispatch timed out on its fetch.
C4_Witness ==
  \E m \in Slots :
    /\ msg[m] # NoMsg /\ Has(msg[m], "type") /\ msg[m].type = "GET_TTS"
    /\ timer[m].state = "fired" /\ Len(fetches[m]) = 1
    /\ responses[m] = << [error |-> "timeout"] >>

\* C5: a translate dispatch whose cache read returned a translation answers
\* {translation: <that value>, cached: true} and makes no fetch; a translation
\* answered after a fetch carries no cached tag.
C5_CacheHit ==
  \A m \in Slots :
    /\ cached[m].value # "null" =>
         /\ responses[m] = << [translation |-> cached[m].value, cached |-> TRUE] >>
         /\ fetches[m] = << >>
         /\ pc[m] = "done"
    /\ \A i \in 1..Len(responses[m]) :
         (Has(responses[m][i], "translation") /\ fetches[m] # << >>) =>
           ~Has(responses[m][i], "cached")

\* C5 witness: a dispatch was served the entry another dispatch had written.
C5_Witness ==
  \E m, o \in Slots :
    /\ m # o /\ cw[o].state = "done"
    /\ cached[m].value = cw[o].translation
    /\ responses[m] = << [translation |-> cw[o].translation, cached |-> TRUE] >>
    /\ fetches[m] = << >>

\* C6: of two translate dispatches with the same target and trimmed text, the
\* first answered with the proxy's translation, the second reading the cache
\* once the first's cache write is complete and less than the TTL after it:
\* the second makes no fetch and answers the translation the first answered.
C6_SecondFromCache ==
  [][ \A m1, m2 \in Slots :
        ( /\ m1 # m2
          /\ cw[m1].state = "done"
          /\ responses[m1] = << [translation |-> cw[m1].translation] >>
          /\ pc[m2] = "cacheGet" /\ pc'[m2] # "cacheGet"
          /\ TargetOf(msg[m1]) = TargetOf(msg[m2])
          /\ TextOf(msg[m1]) = TextOf(msg[m2])
          /\ now - snap[m1][cacheKey[m1]].ts < 86400000 )
        => ( /\ pc'[m2] = "done"
             /\ fetches'[m2] = << >>
             /\ responses'[m2] =
                  << [translation |-> responses[m1][1].translation, cached |-> TRUE] >> )
    ]_vars

\* C6 witness: the second request, sent with padding around the same text,
\* was answered from the first's entry without a fetch.
C6_Witness ==
  \E m1, m2 \in Slots :
    /\ m1 # m2 /\ cw[m1].state = "done"
    /\ Len(fetches[m1]) = 1 /\ fetches[m2] = << >>
    /\ msg[m1] # NoMsg /\ msg[m2] # NoMsg
    /\ msg[m1].text # msg[m2].text
    /\ Len(responses[m1]) = 1 /\ Has(responses[m1][1], "translation")
    /\ responses[m2] =
         << [translation |-> responses[m1][1].translation, cached |-> TRUE] >>

\* C7: after setCachedTranslation(k, v) has completed, a getCachedTranslation(k)
\* whose read runs less than the TTL later returns v; one whose read runs
\* more than the TTL later returns null, and when its purge resolves the
\* stored map does not contain k.
C7_RoundTrip ==
  [][ /\ \A m1, m2 \in Slots :
           ( /\ m1 # m2
             /\ cw[m1].state = "done"
             /\ cacheKey[m2] = cacheKey[m1]
             /\ pc[m2] = "cacheGet" /\ pc'[m2] # "cacheGet" )
           => LET age == now - snap[m1][cacheKey[m1]].ts
              IN /\ age < 86400000 => cached'[m2].value = cw[m1].translation
                 /\ age > 86400000 =>
                      cached'[m2].value = "null" /\ pc'[m2] = "cachePurge"
      /\ \A m \in Slots :
           (pc[m] = "cachePurge" /\ pc'[m] # "cachePurge") =>
             cacheKey[m] \notin DOMAIN cache'
    ]_vars

\* C7 witness: the entry one dispatch wrote was found expired by the other
\* and is gone from the stored map.
C7_Witness ==
  \E m1, m2 \in Slots :
    /\ m1 # m2 /\ cw[m1].state = "done"
    /\ cacheKey[m2] = cacheKey[m1]
    /\ cached[m2] = [read |-> "items", value |-> "null"]
    /\ cacheKey[m2] \notin DOMAIN cache
    /\ pc[m2] # "cachePurge"

\* C8 (as claimed): a read of an entry of age a returns the stored
\* translation iff a < 86400000, and returns absent and purges it for every
\* a >= 86400000.
C8_ValidBelowTtl ==
  [][ \A m \in Slots :
        ( /\ pc[m] = "cacheGet" /\ pc'[m] # "cacheGet"
          /\ cached'[m].read = "items"
          /\ cacheKey[m] \in DOMAIN cache )
        => LET entry == cache[cacheKey[m]]
               a == now - entry.ts
           IN IF a < 86400000
              THEN cached'[m].value = entry.translation
              ELSE /\ cached'[m].value = "null"
                   /\ pc'[m] = "cachePurge"
                   /\ cacheKey[m] \notin DOMAIN snap'[m]
    ]_vars

\* C8 (amended): a read of an entry of age a returns the stored translation
\* iff a <= 86400000, and returns absent and purges it for every
\* a > 86400000.
C8_ValidUpToTtl ==
  [][ \A m \in Slots :
        ( /\ pc[m] = "cacheGet" /\ pc'[m] # "cacheGet"
          /\ cached'[m].read = "items"
          /\ cacheKey[m] \in DOMAIN cache )
        => LET entry == cache[cacheKey[m]]
               a == now - entry.ts
           IN IF a <= 86400000
              THEN cached'[m].value = entry.translation
              ELSE /\ cached'[m].value = "null"
                   /\ pc'[m] = "cachePurge"
                   /\ cacheKey[m] \notin DOMAIN snap'[m]
    ]_vars

\* C8 witness: an entry read at the age of exactly 86400000 ms was returned.
C8_Witness ==
  \E m \in Slots :
    /\ cacheKey[m] \in DOMAIN cache
    /\ timer[m].armedAt - cache[cacheKey[m]].ts = 86400000
    /\ now = timer[m].armedAt
    /\ cached[m] = [read |-> "items", value |-> cache[cacheKey[m]].translation]

\* C10: for each kind, a proxy response with a non-success status s is
\* answered {error: proxy_error, status: s, message: <body, or "" when the
\* body cannot be read>}, and the dispatch creates or overwrites no entry of
\* the cache.
C10_ProxyError ==
  \A m \in Slots :
    (pc[m] = "done" /\ resp[m] # NoResp
       /\ (resp[m].status < 200 \/ resp[m].status > 299)) =>
      /\ responses[m] =
           << [error |-> "proxy_error", status |-> resp[m].status,
               message |-> IF resp[m].body = "unreadable" THEN "" ELSE resp[m].body] >>
      /\ cw[m].state = "none"
      /\ \A k \in DOMAIN cache : k \in DOMAIN StoredMap /\ cache[k] = StoredMap[k]

\* C10 witness: a GET_TTS dispatch got a 500 whose body could not be read.
C10_Witness ==
  \E m \in Slots :
    /\ msg[m] # NoMsg /\ Has(msg[m], "type") /\ msg[m].type = "GET_TTS"
    /\ resp[m] = [status |-> 500, body |-> "unreadable"]
    /\ responses[m] = << [error |-> "proxy_error", status |-> 500, message |-> ""] >>

\* The parsed body lacks the field the kind expects (or is not JSON at all).
Malformed(kind, data) ==
  LET f == IF kind = "TRANSLATE_TEXT" THEN "translation"
           ELSE IF kind = "ANALYZE_TEXT" THEN "analysis" ELSE "audio"
  IN data = Null \/ ~Has(data, f) \/ data[f] = ""

Variants == {"translation", "analysis", "audio", "error"}

\* C12: every response the dispatcher sends carries exactly one of the
\* fields translation, analysis, audio, error.
C12_OneVariant ==
  \A m \in Slots : \A i \in 1..Len(responses[m]) :
    Cardinality(DOMAIN responses[m][i] \cap Variants) = 1

\* C12 witness: responses with further fields next to their variant were
\* sent -- an audio with its mime type, defaulted by the dispatcher.
C12_Witness ==
  \E m \in Slots :
    /\ resp[m] = [status |-> 200, body |-> [audio |-> "QUJD"]]
    /\ responses[m] = << [audio |-> "QUJD", mime |-> "audio/mpeg"] >>

\* C13: no automatic retry -- whatever the outcome of its fetch, a dispatch
\* has issued at most one fetch to the proxy, and a handler invocation has
\* issued at most one call to an upstream provider.
C13_NoRetry ==
  /\ \A m \in Slots : Len(fetches[m]) <= 1
  /\ Len(upstream) <= 1

\* C13 witness: the dispatch ended on a transport error after its one fetch,
\* and the handler answered 502 after its one provider call failed.
C13_Witness ==
  \E m \in Slots :
    /\ pc[m] = "done" /\ Len(fetches[m]) = 1
    /\ Len(responses[m]) = 1 /\ ErrorOf(responses[m][1]) = "request_failed"
    /\ hpc = "done" /\ Len(upstream) = 1
    /\ Len(hres) = 1 /\ hres[1].status = 502

\* C14 (as claimed): getProxyConfig never fails -- whatever the storage read
\* does, an exception raised by the storage call included, its promise is
\* not rejected, and what it resolves to has an endpoint URL (the built-in
\* default unless one is stored) and a token that is null or non-empty.
C14_ConfigNeverFails ==
  \A m \in Slots :
    /\ pc[m] # "rejected"
    /\ cfg[m] # NoCfg =>
         /\ cfg[m].url # ""
         /\ cfg[m].token # ""
         /\ (cfg[m].url = DefaultProxyUrl \/ cfg[m].token # "null")

\* Dispatch m takes part in the step.
Acted(m) == pc'[m] # pc[m] \/ cw'[m] # cw[m]

\* After the step, dispatch m is a translate dispatch that has received a
\* translation from the proxy.
GotTranslation(m) ==
  /\ Recognized(msg'[m]) /\ msg'[m].type = "TRANSLATE_TEXT"
  /\ cw'[m].state # "none"

\* After the step, dispatch m, if it is an analyze or a TTS dispatch, has
\* not read the cache nor started a cache write, and has issued its fetch if
\* its proxy configuration has resolved.
NoCacheForOtherKinds(m) ==
  (Recognized(msg'[m]) /\ msg'[m].type \in {"ANALYZE_TEXT", "GET_TTS"}) =>
    /\ cached'[m] = NotRead
    /\ cw'[m].state = "none"
    /\ reads'[m] <= 1
    /\ cfg'[m] # NoCfg => Len(fetches'[m]) = 1

\* After the step, dispatch m is a translate dispatch that has ended in a
\* Failure.
EndedInFailure(m) ==
  /\ Recognized(msg'[m]) /\ msg'[m].type = "TRANSLATE_TEXT"
  /\ pc'[m] = "done"
  /\ Len(responses'[m]) = 1 /\ Has(responses'[m][1], "error")

C16_LostWrite ==
  [][ \A m, o \in Slots :
        ( /\ m # o
          /\ cw[m].state = "set" /\ cw'[m].state = "done"
          /\ cw[o].state = "done"
          /\ cacheKey[o] # cacheKey[m]
          /\ cacheKey[o] \notin DOMAIN snap[m]
          /\ cacheKey[o] \in DOMAIN cache )
        => ( /\ cacheKey[m] \in DOMAIN cache'
             /\ cacheKey[o] \notin DOMAIN cache' )
    ]_vars

\* C16 witness: two setCachedTranslation calls on different keys have both
\* completed, nothing has expired, and the stored map holds only one key.
C16_Witness ==
  \E m, o \in Slots :
    /\ m # o /\ cw[m].state = "done" /\ cw[o].state = "done"
    /\ cacheKey[m] # cacheKey[o]
    /\ now < CACHE_TTL_MS
    /\ DOMAIN cache = {cacheKey[m]}

\* Dispatches m and o are translate dispatches for the same target and
\* trimmed text that both missed the cache and both got a translation.
BothMissed(m, o) ==
  /\ m # o
  /\ Recognized(msg[m]) /\ msg[m].type = "TRANSLATE_TEXT"
  /\ Recognized(msg[o]) /\ msg[o].type = "TRANSLATE_TEXT"
  /\ TargetOf(msg[m]) = TargetOf(msg[o]) /\ TextOf(msg[m]) = TextOf(msg[o])
  /\ cached[m].read # "none" /\ cached[m].value = "null"
  /\ cached[o].read # "none" /\ cached[o].value = "null"
  /\ cw[m].state # "none" /\ cw[o].state # "none"

PathFor(kind) ==
  IF kind = "TRANSLATE_TEXT" THEN "translate"
  ELSE IF kind = "ANALYZE_TEXT" THEN "analyze" ELSE "tts"

\* C18: the body of a dispatch's fetch has the fields of its kind
\* ({text, target}, {text, action: "analyze"}, {text, tts: true, voice}), its
\* x-proxy-token header is present exactly when a token is configured, and
\* the handler serving it, once past its configuration check, is on the path
\* of that kind and never on another.
C18_Routing ==
  \A m \in Slots :
    Len(fetches[m]) >= 1 =>
      LET f == fetches[m][1]
          kind == msg[m].type
      IN /\ f.method = "POST"
         /\ kind = "TRANSLATE_TEXT" => DOMAIN f.body = {"text", "target"}
         /\ kind = "ANALYZE_TEXT" =>
              DOMAIN f.body = {"text", "action"} /\ f.body.action = "analyze"
         /\ kind = "GET_TTS" =>
              DOMAIN f.body = {"text", "tts", "voice"} /\ f.body.tts = TRUE
         /\ Has(f.headers, "xProxyToken") <=> cfg[m].token \notin {"null", ""}
         /\ Has(f.headers, "xProxyToken") => f.headers.xProxyToken = cfg[m].token
         /\ hpath # "none" => hpath = PathFor(kind)
         /\ (hpc \in {"upstream", "body", "done"} /\ env.OPENAI_API_KEY # "null") =>
              hpath = PathFor(kind)

\* C18 witness: a GET_TTS dispatch with a token configured sent the header,
\* and the handler called the speech provider for it.
C18_Witness ==
  \E m \in Slots :
    /\ Len(fetches[m]) = 1 /\ msg[m].type = "GET_TTS"
    /\ Has(fetches[m][1].headers, "xProxyToken")
    /\ hpath = "tts" /\ Len(upstream) = 1 /\ upstream[1].provider = "elevenlabs"

\* C19: an OPTIONS request is answered 200 with no body and with the three
\* CORS headers set, whatever its body and the server's configuration,
\* without validation and without any provider call.
C19_Options ==
  (req # NoReq /\ req.method = "OPTIONS") =>
    /\ hpc = "done"
    /\ hres = << [status |-> 200, body |-> [end |-> TRUE]] >>
    /\ hdrs = { <<"Access-Control-Allow-Origin", "*">>,
                <<"Access-Control-Allow-Headers", "Content-Type, x-proxy-token">>,
                <<"Access-Control-Allow-Methods", "POST, OPTIONS">> }
    /\ upstream = << >>
    /\ hpath = "none"

\* C19 witness: an OPTIONS request whose body is not JSON, to a server with
\* no API key, got 200; and so did one whose body has a text over the limit.
C19_Witness ==
  /\ req # NoReq /\ req.method = "OPTIONS"
  /\ \/ req.raw = Garbage /\ req.body = Undefined
     \/ /\ Has(req.body, "text") /\ req.body.text = JStr(Rep("a", 10001))
  /\ env.OPENAI_API_KEY = "null"
  /\ Len(hres) = 1 /\ hres[1].status = 200

\* C20: a request whose method is neither POST nor OPTIONS is answered 405
\* {error: method_not_allowed}, without validation of its body and without
\* any provider call.
C20_MethodNotAllowed ==
  (req # NoReq /\ req.method \notin {"POST", "OPTIONS"}) =>
    /\ hpc = "done"
    /\ hres = << [status |-> 405, body |-> [error |-> "method_not_allowed"]] >>
    /\ upstream = << >>
    /\ hpath = "none"

\* C20 witness: a GET carrying a body that would fail validation, and a PUT
\* carrying a valid translate body to a configured server, both got 405.
C20_Witness ==
  /\ req # NoReq /\ Len(hres) = 1 /\ hres[1].status = 405
  /\ \/ req.method = "GET" /\ req.body = EmptyMap
     \/ /\ req.method = "PUT" /\ req.body = [text |-> JStr(A1)]
        /\ env.OPENAI_API_KEY = "sk"

\* The error field of the responses sent so far.
Errors == {ErrorOf(hres[i].body) : i \in 1..Len(hres)}

\* The request stream has been read (or was never needed).
BodySettled == req # NoReq /\ hpc \notin {"idle", "readBody"}

\* C21: a POST whose body is not parseable as JSON is answered 400
\* {error: invalid_json}, and a POST whose body is valid JSON is never
\* answered invalid_json.
C21_InvalidJson ==
  (BodySettled /\ req.method = "POST") =>
    /\ ~Has(req.raw, "json") =>
         /\ Len(hres) = 1
         /\ hres[1].status = 400
         /\ ErrorOf(hres[1].body) = "invalid_json"
         /\ upstream = << >>
    /\ Has(req.raw, "json") => "invalid_json" \notin Errors

\* C21 witness: a POST whose stream held no JSON was answered 400
\* invalid_json.
C21_Witness ==
  /\ BodySettled /\ req.method = "POST" /\ req.raw = Garbage
  /\ Len(hres) = 1 /\ hres[1].status = 400
  /\ ErrorOf(hres[1].body) = "invalid_json"

\* The text of a posted body: absent when the body is not an object or has
\* no text field.
TextMissing(b) ==
  \/ Has(b, "undefined") \/ Has(b, "t")
  \/ ~Has(b, "text")
  \/ b.text.t # "string"
  \/ b.text = JStr(<< >>)

TextTooLong(b) == ~TextMissing(b) /\ StrLen(b.text.v) > 10000

\* A POST whose body the handler holds parsed.
PostParsed == BodySettled /\ req.method = "POST" /\ ~Has(req.body, "undefined")

\* C22: on every POST, a missing, empty or non-string text is answered 400
\* {error: missing_text} and a text of more than 10000 characters 400
\* {error: text_too_long}, whatever the configuration and the action, and no
\* provider call is made for such a request.
C22_Revalidates ==
  PostParsed =>
    /\ TextMissing(req.body) =>
         /\ hres = << [status |-> 400, body |-> [error |-> "missing_text"]] >>
         /\ upstream = << >>
    /\ TextTooLong(req.body) =>
         /\ hres = << [status |-> 400, body |-> [error |-> "text_too_long"]] >>
         /\ upstream = << >>

\* C22 witness: a text one over the bound, sent with action analyze to a
\* server that has no chat key, was answered text_too_long.
C22_Witness ==
  /\ PostParsed /\ Len(hres) = 1 /\ hres[1].status = 400
  /\ req.body = [text |-> JStr(Rep("a", 10001)), action |-> JAtom("analyze")]
  /\ env.OPENAI_API_KEY = "null"
  /\ ErrorOf(hres[1].body) = "text_too_long"

\* The chat-completion key is not configured: unset or empty.
NoChatKey == env.OPENAI_API_KEY \in {"null", ""}

\* C23: when the chat-completion API key is not configured, every POST with
\* valid text is answered 500 {error: server_misconfigured} and no provider
\* call is made, whichever action the request selects.
C23_Misconfigured ==
  (PostParsed /\ ~TextMissing(req.body) /\ ~TextTooLong(req.body) /\ NoChatKey) =>
    /\ hres = << [status |-> 500, body |-> [error |-> "server_misconfigured"]] >>
    /\ upstream = << >>
    /\ hpc = "done"

\* C23 witness: a synthesis request to a server that has the speech key and a
\* voice but no chat key was answered server_misconfigured.
C23_Witness ==
  /\ PostParsed /\ NoChatKey
  /\ req.body = [text |-> JStr(A1), tts |-> JBool(TRUE)]
  /\ env.ELEVENLABS_KEY = "el1" /\ env.ELEVEN_VOICE_ID = "envVoice"
  /\ Len(hres) = 1 /\ hres[1].status = 500
  /\ ErrorOf(hres[1].body) = "server_misconfigured"

\* A POST that passed validation on a server whose chat key is configured:
\* the handler has routed it.
Routed ==
  /\ PostParsed /\ ~TextMissing(req.body) /\ ~TextTooLong(req.body)
  /\ ~NoChatKey

IsAnalyze(b) == Has(b, "action") /\ b.action = JAtom("analyze")

\* C24 as claimed: action === "analyze" selects the Analyze path, otherwise
\* tts === true the Synthesize path, and every other payload (a tts that is
\* present but not the boolean true included) the Translate path.
C24_StrictTts ==
  Routed =>
    hpath = IF IsAnalyze(req.body) THEN "analyze"
            ELSE IF Has(req.body, "tts") /\ req.body.tts = JBool(TRUE) THEN "tts"
            ELSE "translate"

\* tts is truthy: true, a non-empty string, a non-zero number.
TtsTruthy(b) ==
  /\ Has(b, "tts")
  /\ b.tts \notin {JBool(FALSE), JNum(0), JAtom(""), JNull}

\* C24 amended: action === "analyze" selects the Analyze path (even when tts
\* is set), otherwise a truthy tts selects the Synthesize path, and every
\* other payload (tts absent or falsy) the Translate path.
C24_Routing ==
  Routed =>
    hpath = IF IsAnalyze(req.body) THEN "analyze"
            ELSE IF TtsTruthy(req.body) THEN "tts"
            ELSE "translate"

\* C24 witness: a request whose tts is the string "yes" took the Synthesize
\* path.
C24_Witness ==
  /\ Routed
  /\ Has(req.body, "tts") /\ req.body.tts = JAtom("yes")
  /\ hpath = "tts"

\* The whitespace-delimited tokens of s: its maximal runs of characters that
\* are not whitespace.
Tokens(s) ==
  Cardinality({i \in 1..Len(s) :
     ~IsWhitespace(s[i].c) /\ (i = 1 \/ IsWhitespace(s[i - 1].c))})

Terminals == {".", "!", "?", ";"}

\* C25: for every text that passes validation, the Analyze path classifies
\* the trimmed text as a single word if and only if it has exactly one
\* whitespace-delimited token and none of the characters . ! ? ; and as a
\* sentence otherwise.
C25_Classification ==
  (Routed /\ hpath = "analyze") =>
    LET trimmed == Trim(req.body.text.v)
        word == /\ Tokens(trimmed) = 1
                /\ \A i \in 1..Len(trimmed) : trimmed[i].c \notin Terminals
    IN /\ Len(upstream) = 1
       /\ upstream[1].input = trimmed
       /\ upstream[1].prompt = IF word THEN "word" ELSE "sentence"

\* The Analyze path has answered a 200 completion whose body could be read;
\* the text to recover is the completion's content, '' when there is none.
AnalyzeAnswered ==
  /\ Routed /\ hpath = "analyze" /\ hpc = "done"
  /\ uresp.status = 200
  /\ ~Has(uresp.body, "unreadable")
  /\ Has(uresp.body, "content") => uresp.body.content.t \in {"string", "null"}

RawContent ==
  IF Has(uresp.body, "content") /\ uresp.body.content.t = "string"
  THEN uresp.body.content.p ELSE << >>

InvalidAnalysisSent(r, c) ==
  /\ r.status = 502
  /\ ErrorOf(r.body) = "invalid_analysis"
  /\ r.body.raw = c
  /\ Has(r.body, "hint")

\* The response r uses the parsed value v: a success carrying v (with
\* defaulted fields at most added) when v is an object or an array, the error
\* otherwise.
UsesResult(r, v, c) ==
  IF v.t \in {"object", "array"}
  THEN /\ r.status = 200
       /\ DOMAIN r.body = {"analysis"}
       /\ r.body.analysis.t = v.t
       /\ IF v.t = "array" THEN r.body.analysis = v
          ELSE \A f \in DOMAIN v.o :
                 /\ f \in DOMAIN r.body.analysis.o
                 /\ v.o[f] # "null" => r.body.analysis.o[f] = v.o[f]
  ELSE InvalidAnalysisSent(r, c)

\* C26: recovery of the model's output is layered: the text is cleaned of
\* fence markers and trimmed; if the cleaned text parses as JSON that result
\* is used; otherwise the substring from the first '{' to the last '}' is
\* parsed and used if it parses; otherwise the answer is 502 invalid_analysis
\* carrying the cleaned text and a hint. A later layer is never used when an
\* earlier one succeeds, and output that cannot be parsed is never answered
\* with a success.
C26_Layered ==
  AnalyzeAnswered =>
    LET c == CleanContent(RawContent)
        r == hres[1]
    IN /\ Len(hres) = 1
       /\ IF Parses(c) THEN UsesResult(r, ParseOf(c), c)
          ELSE IF Matches(c) /\ Parses(MatchOf(c))
          THEN UsesResult(r, ParseOf(MatchOf(c)), c)
          ELSE InvalidAnalysisSent(r, c)

\* C26 witness: the output [{...}] parses whole, as an array, and the answer
\* carries the array although the braces inside it would parse too.
C26_Witness ==
  /\ AnalyzeAnswered
  /\ RawContent = << Val(JArrOf(WordObject)) >>
  /\ hres[1].status = 200
  /\ hres[1].body.analysis = JArrOf(WordObject)

\* The model's output is prose followed by a fenced JSON block, as in
\* Sure! ```json {...} ```
ProseThenFenced(c) ==
  /\ Len(c) = 7
  /\ c[1] = Prose /\ c[2] = WS /\ c[3].k = "fence" /\ c[4] = WS
  /\ c[5].k = "value" /\ c[5].json.t = "object"
  /\ c[6] = WS /\ c[7] = Fence(FALSE)

\* The output is a JSON object embedded in unfenced prose.
ObjectInProse(c) ==
  /\ Len(c) = 5
  /\ c[1] = Prose /\ c[2] = WS
  /\ c[3].k = "value" /\ c[3].json.t = "object"
  /\ c[4] = WS /\ c[5] = Prose

\* The output has no brace and no fence in it and is not JSON.
PlainProse(c) ==
  /\ c # << >>
  /\ \A i \in 1..Len(c) : c[i].k \in {"prose", "ws"}
  /\ \E i \in 1..Len(c) : c[i].k = "prose"

NoBraces(c) == \A i \in 1..Len(c) : ~HasOpen(c[i]) /\ ~HasClose(c[i])

HasFence(c) == \E i \in 1..Len(c) : c[i].k = "fence"

Recovered(r, v) ==
  /\ r.status = 200
  /\ Has(r.body, "analysis")
  /\ r.body.analysis.t = "object"
  /\ \A f \in DOMAIN v.o : f \in DOMAIN r.body.analysis.o

\* C27 as claimed: prose followed by a fenced JSON block is recovered by the
\* fence-stripping layer (the cleaned text has no fence marker and parses
\* directly); an object embedded in unfenced prose is recovered by brace
\* extraction; an output with no braces is answered with a parse failure
\* carrying the original raw text.
C27_FenceLayer ==
  AnalyzeAnswered =>
    LET c == CleanContent(RawContent)
    IN /\ ProseThenFenced(RawContent) =>
            /\ ~HasFence(c)
            /\ Parses(c)
            /\ Recovered(hres[1], RawContent[5].json)
       /\ ObjectInProse(RawContent) =>
            /\ ~Parses(c)
            /\ Recovered(hres[1], RawContent[3].json)
       /\ PlainProse(RawContent) =>
            /\ hres[1].status = 502
            /\ ErrorOf(hres[1].body) = "invalid_analysis"
            /\ hres[1].body.raw = RawContent

\* C27 amended: prose followed by a fenced JSON block is recovered by brace
\* extraction: only a fence at the very start of the text is stripped, so
\* the cleaned text still holds the opening marker and does not parse
\* directly; an object embedded in unfenced prose is recovered by brace
\* extraction too; a text with no braces that is not JSON is answered with a
\* parse failure carrying the cleaned text (trimmed, and without a fence that
\* began or ended it).
C27_BraceLayer ==
  AnalyzeAnswered =>
    LET c == CleanContent(RawContent)
    IN /\ ProseThenFenced(RawContent) =>
            /\ HasFence(c)
            /\ ~Parses(c)
            /\ Recovered(hres[1], RawContent[5].json)
       /\ ObjectInProse(RawContent) =>
            /\ ~Parses(c)
            /\ Recovered(hres[1], RawContent[3].json)
       /\ (NoBraces(RawContent) /\ ~Parses(c)) =>
            /\ hres[1].status = 502
            /\ ErrorOf(hres[1].body) = "invalid_analysis"
            /\ hres[1].body.raw = c
            /\ PlainProse(RawContent) => c = TrimPieces(RawContent)

\* C27 witness: the output Sure! ```json {...} ``` was answered with the
\* analysis although its cleaned text still holds a fence marker.
C27_Witness ==
  /\ AnalyzeAnswered
  /\ ProseThenFenced(RawContent)
  /\ HasFence(CleanContent(RawContent))
  /\ hres[1].status = 200
  /\ Has(hres[1].body, "analysis")

\* The value the recovery parsed from the cleaned text c.
ParsedOf(c) == IF Parses(c) THEN ParseOf(c) ELSE ParseOf(MatchOf(c))

\* The Analyze path answered with a success whose analysis is an object.
AnalysisObjectSent ==
  /\ AnalyzeAnswered
  /\ hres[1].status = 200
  /\ hres[1].body.analysis.t = "object"

Defined(o, f) == f \in DOMAIN o /\ o[f] # "null"

\* C28 as claimed: in every successful Analyze response none of synonyms,
\* antonyms, examples and words is undefined, whatever the type of the parsed
\* object: those the model omitted are empty arrays.
C28_AllFieldsDefaulted ==
  AnalysisObjectSent =>
    LET A == hres[1].body.analysis.o
        parsed == ParsedOf(CleanContent(RawContent)).o
    IN \A f \in {"synonyms", "antonyms", "examples", "words"} :
         /\ f \in DOMAIN A
         /\ f \notin DOMAIN parsed => A[f] = "[]"

\* The array fields of an analysis of each type.
FieldsOfType(o) ==
  IF ~Has(o, "type") THEN {}
  ELSE IF o.type = "word" THEN {"synonyms", "antonyms", "examples"}
  ELSE IF o.type = "sentence" THEN {"words", "examples"}
  ELSE {}

\* C28 amended: in a successful Analyze response the array fields of the
\* parsed object's type (synonyms, antonyms and examples of a word; words
\* and examples of a sentence) are defined, as empty arrays where the model
\* omitted them or gave null; every other field, and every field of an
\* object of another or no type, is as the model gave it.
C28_FieldsOfTypeDefaulted ==
  AnalysisObjectSent =>
    LET A == hres[1].body.analysis.o
        parsed == ParsedOf(CleanContent(RawContent)).o
    IN /\ DOMAIN A = DOMAIN parsed \cup FieldsOfType(parsed)
       /\ \A f \in DOMAIN A :
            A[f] = IF f \in FieldsOfType(parsed) /\ ~Defined(parsed, f) THEN "[]"
                   ELSE parsed[f]

\* C28 witness: a sentence analysis that the model gave without words and
\* examples was answered with both as empty arrays.
C28_Witness ==
  /\ AnalysisObjectSent
  /\ RawContent = << Val(JObj([type |-> "sentence", meaning |-> "m"])) >>
  /\ hres[1].body.analysis.o =
       [type |-> "sentence", meaning |-> "m", words |-> "[]", examples |-> "[]"]

Set(x) == x \notin {"null", ""}

\* The speech API key is configured, under either of its names.
SpeechKeyAvailable == Set(env.ELEVENLABS_KEY) \/ Set(env.ELEVEN_API_KEY)

\* A voice identifier is available: the default of the environment or the
\* one the request supplies.
VoiceAvailable ==
  \/ Set(env.ELEVEN_VOICE_ID)
  \/ Has(req.body, "voice") /\ req.body.voice \notin {JNull, JAtom("")}

\* A validated POST that asks for synthesis.
SynthesisRequest ==
  /\ PostParsed /\ ~TextMissing(req.body) /\ ~TextTooLong(req.body)
  /\ ~IsAnalyze(req.body) /\ TtsTruthy(req.body)

SpeechCalled == Len(upstream) = 1 /\ upstream[1].provider = "elevenlabs"

NotConfiguredSent ==
  /\ upstream = << >>
  /\ Len(hres) = 1 /\ hres[1].status = 500
  /\ ErrorOf(hres[1].body) = "tts_not_configured"

\* C29 as claimed: synthesis requires exactly the speech key and a voice
\* identifier: without either the answer is 500 tts_not_configured and the
\* speech provider is not called, and with both it is called.
C29_TwoValues ==
  SynthesisRequest =>
    IF SpeechKeyAvailable /\ VoiceAvailable THEN SpeechCalled ELSE NotConfiguredSent

\* C29 amended: on a server whose chat-completion key is configured,
\* synthesis requires the speech key and a voice identifier: without either
\* the answer is 500 tts_not_configured with no call, with both the speech
\* provider is called. Without the chat-completion key no synthesis request
\* reaches the speech provider, whatever the speech configuration.
C29_TwoValuesAndChatKey ==
  SynthesisRequest =>
    IF NoChatKey
    THEN /\ upstream = << >>
         /\ Len(hres) = 1 /\ hres[1].status = 500
         /\ ErrorOf(hres[1].body) = "server_misconfigured"
    ELSE IF SpeechKeyAvailable /\ VoiceAvailable THEN SpeechCalled
    ELSE NotConfiguredSent

\* C29 witness: with no default voice in the environment, a request that
\* supplies its voice reached the speech provider with that voice.
C29_Witness ==
  /\ SynthesisRequest /\ ~NoChatKey
  /\ env.ELEVEN_VOICE_ID = "null"
  /\ req.body.tts = JBool(TRUE)
  /\ Has(req.body, "voice") /\ req.body.voice = JAtom("v1")
  /\ SpeechCalled
  /\ upstream[1].voice = "v1"

\* The handler has answered after calling a provider.
UpstreamAnswered == Routed /\ hpc = "done" /\ Len(upstream) = 1 /\ Len(hres) = 1

\* The provider's Response arrived with a status outside 200..299.
Non2xx == uresp # NoResp /\ (uresp.status < 200 \/ uresp.status > 299)

\* The call failed in transport: the fetch rejected, or the body of a
\* Response could not be read.
TransportFailed == uresp = NoResp \/ Has(uresp.body, "unreadable")

NoPayloadField(r) ==
  /\ ~Has(r.body, "translation") /\ ~Has(r.body, "analysis") /\ ~Has(r.body, "audio")

DocumentedCodes ==
  { "invalid_json", "method_not_allowed", "missing_text", "text_too_long",
    "server_misconfigured", "openai_error", "eleven_error",
    "tts_not_configured", "tts_failed", "no_translation", "invalid_analysis" }

\* Every error response sent so far has its error code in the set S.
ErrorCodesIn(S) ==
  \A i \in 1..Len(hres) :
    hres[i].status >= 400 => (Has(hres[i].body, "error") /\ hres[i].body.error \in S)

\* C31 as claimed: every error response of the handler carries a code of
\* the documented set, for every request and every provider behaviour,
\* a transport failure or unreadable body of the chat-completion call
\* included.
C31_DocumentedOnly == ErrorCodesIn(DocumentedCodes)

\* C31 amended: every error response carries a code of the documented set
\* or proxy_failed, the code of the handler's catch block.
C31_DocumentedOrProxyFailed == ErrorCodesIn(DocumentedCodes \cup {"proxy_failed"})

\* C31 witness: a chat-completion call that failed in transport was answered
\* 500 proxy_failed.
C31_Witness ==
  /\ UpstreamAnswered
  /\ hpath \in {"translate", "analyze"}
  /\ TransportFailed
  /\ hres[1].status = 500
  /\ hres[1].body.error = "proxy_failed"

\* The dispatch is reading the body of the proxy's Response.
ReadingBody(m) == pc[m] \in {"readJson", "readText"}

\* C32: the deadline covers the whole network call: the abort timer stays
\* armed until the proxy's response body has been read, so that a response
\* whose body never completes still ends in {error: timeout}.
C32_DeadlineCoversBody ==
  \A m \in Slots : ReadingBody(m) => timer[m].state = "armed"

\* A step that handles a bubble click.
ClickStep == clicks' = clicks + 1

\* Any two messages of s are at least the cooldown apart.
Spaced(s) == \A i, j \in 1..Len(s) : i < j => s[j] - s[i] >= 2000

\* C33: a bubble click less than 2000 ms after the last accepted click sends
\* no TRANSLATE_TEXT message and leaves _lastRequestTime as it is, so any two
\* messages sent from bubble clicks are at least 2000 ms apart; a click
\* 2000 ms or more after the last accepted one is accepted.
C33_Cooldown ==
  [][ClickStep =>
       /\ clock - lastRequestTime < 2000 =>
            (sent' = sent /\ lastRequestTime' = lastRequestTime)
       /\ clock - lastRequestTime >= 2000 =>
            (lastRequestTime' = clock /\ sent' \in {sent, Append(sent, clock)})
       /\ Spaced(sent')]_vars

\* C33 witness: three clicks were handled and two messages sent, exactly
\* 2000 ms apart: a click in between was refused.
C33_Witness ==
  /\ clicks = 3
  /\ Len(sent) = 2
  /\ sent[2] - sent[1] = 2000
  /\ lastRequestTime = sent[2]

\* C34: sendResponse is called at most once per dispatched message, on every
\* path of the listener; a dispatch that has ended was answered exactly once
\* unless its message was ignored or its configuration read threw.
C34_AtMostOnce ==
  \A m \in Slots :
    /\ Len(responses[m]) <= 1
    /\ pc[m] = "done" => Len(responses[m]) = 1

\* C34 witness: a translate dispatch whose timer fired while the cache was
\* being read ended, through the catch block, with the one response
\* {error: timeout}.
C34_Witness ==
  \E m \in Slots :
    /\ pc[m] = "done"
    /\ msg[m].type = "TRANSLATE_TEXT"
    /\ timer[m].state = "fired"
    /\ Len(fetches[m]) = 1
    /\ cached[m].read # "none"
    /\ responses[m] = << [error |-> "timeout"] >>

\* The storage write of getCachedTranslation's purge completes for m.
PurgeCompletes(m) == pc[m] = "cachePurge" /\ pc'[m] # "cachePurge"

\* C35: under any interleaving of cache operations, getCachedTranslation(k)
\* removes at most the expired entry of k that it read: no unexpired entry
\* (of another key, or a fresh one of k) disappears from the stored map.
C35_PurgeRemovesOnlyExpired ==
  [][\A m \in Slots :
       PurgeCompletes(m) =>
         \A k \in DOMAIN cache :
           k \notin DOMAIN cache' => now - cache[k].ts > CACHE_TTL_MS]_vars

\* An exception was raised inside request processing: a chat-completion call
\* failed in transport, or its completion's content is not a string.
Unexpected ==
  /\ UpstreamAnswered
  /\ hpath \in {"translate", "analyze"}
  /\ \/ TransportFailed
     \/ /\ uresp.status = 200
        /\ Has(uresp.body, "content")
        /\ uresp.body.content.t = "number"

\* C36: for every request and provider behaviour the handler sends exactly
\* one response: it never responds twice, it has responded whenever it has
\* returned, and an unexpected exception in request processing is answered
\* with a 500.
C36_ExactlyOne ==
  /\ Len(hres) <= 1
  /\ hpc = "done" <=> Len(hres) = 1
  /\ Unexpected => hres[1].status = 500

\* C36 witness: a completion whose content is a number made the Analyze
\* path throw, and the handler answered once, with a 500.
C36_Witness ==
  /\ Unexpected
  /\ hpath = "analyze"
  /\ ~TransportFailed
  /\ Len(hres) = 1
  /\ hres[1].status = 500

\* C37: every response the handler sends, error responses included, carries
\* the CORS headers Access-Control-Allow-Origin, Access-Control-Allow-Headers
\* and Access-Control-Allow-Methods.
C37_CorsOnEveryResponse ==
  hres # << >> =>
    \A h \in {"Access-Control-Allow-Origin", "Access-Control-Allow-Headers",
              "Access-Control-Allow-Methods"} :
      \E x \in hdrs : x[1] = h

\* The request supplies a voice identifier.
VoiceSupplied == Has(req.body, "voice") /\ req.body.voice \notin {JNull, JAtom("")}

\* C38: when a Synthesize request supplies a voice identifier the speech
\* provider is called with that voice; the environment's default voice is
\* used only when the request supplies none.
C38_RequestVoiceFirst ==
  (SynthesisRequest /\ SpeechCalled) =>
    upstream[1].voice = IF VoiceSupplied THEN req.body.voice.a
                        ELSE env.ELEVEN_VOICE_ID

\* C40: in every successful Analyze response the analysis is a JSON object:
\* a model output that parses to an array, null, a number, a string or a
\* boolean is answered 502 invalid_analysis, never {analysis: ...}.
C40_AnalysisIsObject ==
  AnalyzeAnswered =>
    IF hres[1].status = 200
    THEN hres[1].body.analysis.t = "object"
    ELSE /\ hres[1].status = 502
         /\ ErrorOf(hres[1].body) = "invalid_analysis"

\* C39: a request that originates from the dispatcher passes the handler's
\* text validation: the handler never answers it missing_text or
\* text_too_long.
C39_ValidationAgreement ==
  hres # << >> => ErrorOf(hres[1].body) \notin {"missing_text", "text_too_long"}

\* The handler has answered a request of the dispatcher whose text is as
\* long as both sides allow, past its validation.
C39_Witness ==
  /\ hres # << >>
  /\ upstream # << >>
  /\ ~Has(req.body, "undefined")
  /\ req.body.text.t = "string"
  /\ StrLen(req.body.text.v) = MaxTextLength
  /\ StrLen(msg[1].text) = MaxTextLength + 2

====
